---- MODULE Spec2Model ----
(***************************************************************************)
(* Model of gemini-pr-description:                                         *)
(*  - the marker codec (getMarkers, hasGeneratedContent, parseDescription, *)
(*    wrapWithMarkers) and the update-mode policy (shouldGenerate,         *)
(*    applyUpdateMode) of description.ts, specification Spec;              *)
(*  - the diff reducer (fetchPRDiff, truncatePatches) of github.ts,        *)
(*    specification SpecDiff;                                              *)
(*  - the retry loop of generateDescription of gemini.ts, specification    *)
(*    SpecGen;                                                             *)
(*  - run and parseInputs of index.ts, specification SpecRun.              *)
(*                                                                         *)
(* Text is a sequence of one-character strings, so that indexOf, includes, *)
(* substring, trim, toLowerCase and parseInt are computed position by      *)
(* position as JavaScript computes them.                                   *)
(***************************************************************************)
EXTENDS Integers, Sequences, FiniteSets, TLC

\* ------------------------------------------------------------------------
\* Bounds of the model
\* ------------------------------------------------------------------------
\* an existing description is a concatenation of at most MaxDocPieces pieces
MaxDocPieces == 4
\* a generated text is a concatenation of at most MaxGenPieces pieces
MaxGenPieces == 1
\* listFiles answers with at most MaxFiles changed files
MaxFiles == 3
\* max_diff_size ranges over -1..MaxBudget
MaxBudget == 4
MaxKeyLength == 21
MaxRuns == 2

\* ------------------------------------------------------------------------
\* JavaScript string primitives
\* ------------------------------------------------------------------------
\* the white space String.prototype.trim and the regex class \s remove
WhiteSpace == {" ", "\n", "\t"}

\* s.substring(from, to) with 0-based from, exclusive to, 0 <= from <= to <= length
substring(s, from, to) == SubSeq(s, from + 1, to)

\* t occurs in s at 0-based position i
OccursAt(s, t, i) ==
  /\ i >= 0
  /\ i + Len(t) <= Len(s)
  /\ \A k \in 1..Len(t) : s[i + k] = t[k]

\* the first position at or after i at which t occurs in s, -1 when there
\* is none
IndexFrom(s, t, i) ==
  LET found == {j \in i..(Len(s) - Len(t)) : OccursAt(s, t, j)}
  IN IF found = {} THEN -1
     ELSE CHOOSE j \in found : \A k \in found : j <= k

\* s.indexOf(t): position of the first occurrence, -1 when there is none
indexOf(s, t) == IndexFrom(s, t, 0)

\* s.includes(t)
includes(s, t) == indexOf(s, t) # -1

RECURSIVE trimStart(_)
trimStart(s) ==
  IF s # << >> /\ Head(s) \in WhiteSpace THEN trimStart(Tail(s)) ELSE s

RECURSIVE trimEnd(_)
trimEnd(s) ==
  IF s # << >> /\ s[Len(s)] \in WhiteSpace
  THEN trimEnd(SubSeq(s, 1, Len(s) - 1)) ELSE s

\* s.trim()
trim(s) == trimEnd(trimStart(s))

\* the blank line "\n\n" of the template literals
BlankLine == <<"\n", "\n">>

\* parts.join('\n\n')
RECURSIVE join(_)
join(parts) ==
  IF parts = << >> THEN << >>
  ELSE IF Len(parts) = 1 THEN parts[1]
  ELSE parts[1] \o BlankLine \o join(Tail(parts))

\* variant: no member is dropped
filterNonBlank_keepAll(parts) == parts

\* parts.filter(p => p.trim().length > 0)
filterNonBlank(parts) == SelectSeq(parts, LAMBDA p : Len(trim(p)) > 0)

\* ------------------------------------------------------------------------
\* Marker codec
\* ------------------------------------------------------------------------
DEFAULT_MARKER ==
  <<"<", "!", "-", "-", " ", "g", "e", "m", "i", "n", "i", "-", "p", "r", "-",
    "d", "e", "s", "c", "r", "i", "p", "t", "i", "o", "n", " ", "-", "-", ">">>

END_MARKER_SUFFIX == <<"-", "e", "n", "d">>

\* the closing delimiter of an HTML comment
CloseDelim == <<"-", "-", ">">>

\* marker.replace(/\s*-->$/, ''): when the marker ends with "-->", the
\* leftmost match takes the whole run of white space in front of it
stripClose(marker) ==
  IF Len(marker) >= 3 /\ SubSeq(marker, Len(marker) - 2, Len(marker)) = CloseDelim
  THEN trimEnd(SubSeq(marker, 1, Len(marker) - 3))
  ELSE marker

\* variant: the suffix is put behind the closing delimiter
getMarkers_suffixBehind(marker) ==
  [start |-> marker, end |-> marker \o END_MARKER_SUFFIX]

getMarkers(marker) ==
  LET baseMarker == trim(stripClose(marker))
  IN [start |-> marker,
      end   |-> baseMarker \o END_MARKER_SUFFIX \o <<" ">> \o CloseDelim]

\* variant: the end marker is not looked for
hasGeneratedContent_startOnly(description, marker) ==
  includes(description, getMarkers(marker).start)

\* variant: one marker is enough
hasGeneratedContent_either(description, marker) ==
  LET m == getMarkers(marker)
  IN includes(description, m.start) \/ includes(description, m.end)

hasGeneratedContent(description, marker) ==
  LET m == getMarkers(marker)
  IN includes(description, m.start) /\ includes(description, m.end)

\* variant: the generated region is cut from the start marker's position
parseDescription_fromStart(description, marker) ==
  LET m        == getMarkers(marker)
      startIdx == indexOf(description, m.start)
      endIdx   == indexOf(description, m.end)
  IN IF startIdx = -1 \/ endIdx = -1 \/ startIdx >= endIdx
     THEN [beforeMarker     |-> description,
           generatedContent |-> << >>,
           afterMarker      |-> << >>]
     ELSE [beforeMarker     |-> trim(substring(description, 0, startIdx)),
           generatedContent |-> trim(substring(description, startIdx, endIdx)),
           afterMarker      |->
             trim(substring(description, endIdx + Len(m.end), Len(description)))]

\* variant: the fallback trims the document
parseDescription_trimFallback(description, marker) ==
  LET m        == getMarkers(marker)
      startIdx == indexOf(description, m.start)
      endIdx   == indexOf(description, m.end)
  IN IF startIdx = -1 \/ endIdx = -1 \/ startIdx >= endIdx
     THEN [beforeMarker     |-> trim(description),
           generatedContent |-> << >>,
           afterMarker      |-> << >>]
     ELSE [beforeMarker     |-> trim(substring(description, 0, startIdx)),
           generatedContent |->
             trim(substring(description, startIdx + Len(m.start), endIdx)),
           afterMarker      |->
             trim(substring(description, endIdx + Len(m.end), Len(description)))]

parseDescription(description, marker) ==
  LET m        == getMarkers(marker)
      startIdx == indexOf(description, m.start)
      endIdx   == indexOf(description, m.end)
  IN IF startIdx = -1 \/ endIdx = -1 \/ startIdx >= endIdx
     THEN [beforeMarker     |-> description,
           generatedContent |-> << >>,
           afterMarker      |-> << >>]
     ELSE [beforeMarker     |-> trim(substring(description, 0, startIdx)),
           generatedContent |->
             trim(substring(description, startIdx + Len(m.start), endIdx)),
           afterMarker      |->
             trim(substring(description, endIdx + Len(m.end), Len(description)))]

\* variant: the content is trimmed before it is wrapped
wrapWithMarkers_trimmed(content, marker) ==
  LET m == getMarkers(marker)
  IN m.start \o BlankLine \o trim(content) \o BlankLine \o m.end

wrapWithMarkers(content, marker) ==
  LET m == getMarkers(marker)
  IN m.start \o BlankLine \o content \o BlankLine \o m.end

\* ------------------------------------------------------------------------
\* Update-mode policy
\* ------------------------------------------------------------------------
UpdateMode == {"empty", "append", "replace", "smart"}

\* the "---" rule of append mode
Separator == <<"-", "-", "-">>

\* variant: the description is not trimmed before the emptiness test
shouldGenerate_noTrim(currentDescription, updateMode, marker) ==
  CASE updateMode = "empty" -> Len(currentDescription) = 0
    [] OTHER                -> TRUE

\* the boolean of the { shouldGenerate, reason } result
shouldGenerate(currentDescription, updateMode, marker) ==
  LET trimmedDescription == trim(currentDescription)
  IN CASE updateMode = "empty"   -> Len(trimmedDescription) = 0
       [] updateMode = "append"  -> TRUE
       [] updateMode = "replace" -> TRUE
       [] updateMode = "smart"   -> TRUE
       [] OTHER                  -> TRUE

\* variant: append mode puts the separator in front of the block even when
\* there is nothing to separate it from
applyUpdateMode_appendAlways(existingDescription, generatedContent, updateMode, marker) ==
  LET wrappedContent == wrapWithMarkers(generatedContent, marker)
  IN CASE updateMode = "empty" -> wrappedContent
       [] updateMode = "append" ->
            trim(existingDescription) \o BlankLine \o Separator
              \o BlankLine \o wrappedContent
       [] updateMode = "replace" -> wrappedContent
       [] updateMode = "smart" ->
            IF hasGeneratedContent(existingDescription, marker)
            THEN LET p == parseDescription(existingDescription, marker)
                 IN join(filterNonBlank(
                      <<p.beforeMarker, wrappedContent, p.afterMarker>>))
            ELSE IF trim(existingDescription) # << >>
            THEN trim(existingDescription) \o BlankLine \o wrappedContent
            ELSE wrappedContent
       [] OTHER -> wrappedContent

\* variant: smart mode forgets the text behind the marked block
applyUpdateMode_dropAfter(existingDescription, generatedContent, updateMode, marker) ==
  LET wrappedContent == wrapWithMarkers(generatedContent, marker)
  IN CASE updateMode = "empty" -> wrappedContent
       [] updateMode = "append" ->
            IF trim(existingDescription) # << >>
            THEN trim(existingDescription) \o BlankLine \o Separator
                   \o BlankLine \o wrappedContent
            ELSE wrappedContent
       [] updateMode = "replace" -> wrappedContent
       [] updateMode = "smart" ->
            IF hasGeneratedContent(existingDescription, marker)
            THEN LET p == parseDescription(existingDescription, marker)
                 IN join(filterNonBlank(<<p.beforeMarker, wrappedContent>>))
            ELSE IF trim(existingDescription) # << >>
            THEN trim(existingDescription) \o BlankLine \o wrappedContent
            ELSE wrappedContent
       [] OTHER -> wrappedContent

\* variant: empty mode keeps a description that is not empty
applyUpdateMode_emptyChecks(existingDescription, generatedContent, updateMode, marker) ==
  LET wrappedContent == wrapWithMarkers(generatedContent, marker)
  IN CASE updateMode = "empty" ->
            IF trim(existingDescription) # << >>
            THEN existingDescription ELSE wrappedContent
       [] updateMode = "append" ->
            IF trim(existingDescription) # << >>
            THEN trim(existingDescription) \o BlankLine \o Separator
                   \o BlankLine \o wrappedContent
            ELSE wrappedContent
       [] updateMode = "replace" -> wrappedContent
       [] updateMode = "smart" ->
            IF hasGeneratedContent(existingDescription, marker)
            THEN LET p == parseDescription(existingDescription, marker)
                 IN join(filterNonBlank(
                      <<p.beforeMarker, wrappedContent, p.afterMarker>>))
            ELSE IF trim(existingDescription) # << >>
            THEN trim(existingDescription) \o BlankLine \o wrappedContent
            ELSE wrappedContent
       [] OTHER -> wrappedContent

applyUpdateMode(existingDescription, generatedContent, updateMode, marker) ==
  LET wrappedContent == wrapWithMarkers(generatedContent, marker)
  IN CASE updateMode = "empty" -> wrappedContent
       [] updateMode = "append" ->
            IF trim(existingDescription) # << >>
            THEN trim(existingDescription) \o BlankLine \o Separator
                   \o BlankLine \o wrappedContent
            ELSE wrappedContent
       [] updateMode = "replace" -> wrappedContent
       [] updateMode = "smart" ->
            IF hasGeneratedContent(existingDescription, marker)
            THEN LET p == parseDescription(existingDescription, marker)
                 IN join(filterNonBlank(
                      <<p.beforeMarker, wrappedContent, p.afterMarker>>))
            ELSE IF trim(existingDescription) # << >>
            THEN trim(existingDescription) \o BlankLine \o wrappedContent
            ELSE wrappedContent
       [] OTHER -> wrappedContent

\* ------------------------------------------------------------------------
\* Inputs
\* ------------------------------------------------------------------------
\* a custom generation_marker in the comment format, with a run of white
\* space in front of its closing delimiter
CustomMarker == <<"<", "!", "-", "-", "a", "i", " ", " ", "-", "-", ">">>

Markers == {DEFAULT_MARKER, CustomMarker}

\* concatenations of at most n members of pieces
RECURSIVE Texts(_, _)
Texts(pieces, n) ==
  IF n = 0 THEN {<< >>}
  ELSE LET shorter == Texts(pieces, n - 1)
       IN shorter \cup {t \o p : t \in shorter, p \in pieces}

\* user text, white space, and the two markers in any order and number
DocPieces(marker) ==
  {<<"u">>, <<"\n">>, getMarkers(marker).start, getMarkers(marker).end}

\* generated text: a word, white space, a word with white space around it,
\* and a stray end marker
GenPieces(marker) ==
  {<<"n">>, <<"\n">>, <<"\n", "n", " ">>, getMarkers(marker).end}

Docs(marker) == Texts(DocPieces(marker), MaxDocPieces)
Gens(marker) == Texts(GenPieces(marker), MaxGenPieces)

NoParse == [beforeMarker |-> << >>, generatedContent |-> << >>, afterMarker |-> << >>]

\* ------------------------------------------------------------------------
\* Diff reducer (github.ts)
\* ------------------------------------------------------------------------
\* an optional value is << >> when it is undefined and <<v>> when it is v
undefined == << >>

\* file.patch?.length || 0
patchLength(file) == IF file.patch = undefined THEN 0 ELSE Len(file.patch[1])

\* the text a cut patch ends with: "\n... (truncated)"
Sentinel ==
  <<"\n", ".", ".", ".", " ", "(", "t", "r", "u", "n", "c", "a", "t", "e", "d", ")">>

\* the letters file names are made of, in alphabetical order
Letters == <<"a", "b", "c", "d", "e">>

LetterRank(c) == CHOOSE i \in 1..Len(Letters) : Letters[i] = c

\* a.localeCompare(b) for names of lower-case letters: -1, 0 or 1
RECURSIVE localeCompare(_, _)
localeCompare(a, b) ==
  IF a = << >> /\ b = << >> THEN 0
  ELSE IF a = << >> THEN -1
  ELSE IF b = << >> THEN 1
  ELSE IF Head(a) = Head(b) THEN localeCompare(Tail(a), Tail(b))
  ELSE IF LetterRank(Head(a)) < LetterRank(Head(b)) THEN -1
  ELSE 1

\* Array.prototype.sort(compareFn): stable, a before b when compareFn(a, b) < 0
sort(array, compareFn(_, _)) ==
  LET before(i) ==
        {j \in DOMAIN array :
           \/ compareFn(array[j], array[i]) < 0
           \/ compareFn(array[j], array[i]) = 0 /\ j < i}
  IN [k \in DOMAIN array |->
        array[CHOOSE i \in DOMAIN array : Cardinality(before(i)) = k - 1]]

\* minimatch(filename, pattern, {dot: true}) for patterns of letters and "*"
RECURSIVE minimatch(_, _)
minimatch(filename, pattern) ==
  IF pattern = << >> THEN filename = << >>
  ELSE IF Head(pattern) = "*"
  THEN \E k \in 0..Len(filename) :
         minimatch(SubSeq(filename, k + 1, Len(filename)), Tail(pattern))
  ELSE /\ filename # << >>
       /\ Head(filename) = Head(pattern)
       /\ minimatch(Tail(filename), Tail(pattern))

shouldExcludeFile(filename, excludePatterns) ==
  IF Len(excludePatterns) = 0 THEN FALSE
  ELSE \E i \in DOMAIN excludePatterns : minimatch(filename, excludePatterns[i])

\* variant: a file the budget has no room for is left out of the result
RECURSIVE truncateLoop_dropFile(_, _, _)
truncateLoop_dropFile(sortedFiles, maxDiffSize, currentSize) ==
  IF sortedFiles = << >> THEN << >>
  ELSE
    LET file == Head(sortedFiles)
        patchSize == patchLength(file)
    IN IF currentSize + patchSize <= maxDiffSize
       THEN <<file>>
              \o truncateLoop_dropFile(Tail(sortedFiles), maxDiffSize,
                                       currentSize + patchSize)
       ELSE IF currentSize < maxDiffSize
       THEN LET remainingSpace == maxDiffSize - currentSize
                truncatedPatch ==
                  IF file.patch = undefined THEN undefined
                  ELSE <<substring(file.patch[1], 0, remainingSpace)>>
                cut ==
                  IF truncatedPatch # undefined /\ truncatedPatch[1] # << >>
                  THEN <<truncatedPatch[1] \o Sentinel>>
                  ELSE undefined
            IN <<[file EXCEPT !.patch = cut]>>
                 \o truncateLoop_dropFile(Tail(sortedFiles), maxDiffSize, maxDiffSize)
       ELSE truncateLoop_dropFile(Tail(sortedFiles), maxDiffSize, currentSize)

\* variant: a cut does not use up the budget
RECURSIVE truncateLoop_budgetLeft(_, _, _)
truncateLoop_budgetLeft(sortedFiles, maxDiffSize, currentSize) ==
  IF sortedFiles = << >> THEN << >>
  ELSE
    LET file == Head(sortedFiles)
        patchSize == patchLength(file)
    IN IF currentSize + patchSize <= maxDiffSize
       THEN <<file>>
              \o truncateLoop_budgetLeft(Tail(sortedFiles), maxDiffSize,
                                         currentSize + patchSize)
       ELSE IF currentSize < maxDiffSize
       THEN LET remainingSpace == maxDiffSize - currentSize
                truncatedPatch ==
                  IF file.patch = undefined THEN undefined
                  ELSE <<substring(file.patch[1], 0, remainingSpace)>>
                cut ==
                  IF truncatedPatch # undefined /\ truncatedPatch[1] # << >>
                  THEN <<truncatedPatch[1] \o Sentinel>>
                  ELSE undefined
            IN <<[file EXCEPT !.patch = cut]>>
                 \o truncateLoop_budgetLeft(Tail(sortedFiles), maxDiffSize, currentSize)
       ELSE <<[file EXCEPT !.patch = undefined]>>
              \o truncateLoop_budgetLeft(Tail(sortedFiles), maxDiffSize, currentSize)

\* the for loop of truncatePatches over the files still to process, with
\* currentSize bytes of the budget used so far
RECURSIVE truncateLoop(_, _, _)
truncateLoop(sortedFiles, maxDiffSize, currentSize) ==
  IF sortedFiles = << >> THEN << >>
  ELSE
    LET file == Head(sortedFiles)
        patchSize == patchLength(file)
    IN IF currentSize + patchSize <= maxDiffSize
       THEN <<file>>
              \o truncateLoop(Tail(sortedFiles), maxDiffSize, currentSize + patchSize)
       ELSE IF currentSize < maxDiffSize
       THEN LET remainingSpace == maxDiffSize - currentSize
                truncatedPatch ==
                  IF file.patch = undefined THEN undefined
                  ELSE <<substring(file.patch[1], 0, remainingSpace)>>
                cut ==
                  IF truncatedPatch # undefined /\ truncatedPatch[1] # << >>
                  THEN <<truncatedPatch[1] \o Sentinel>>
                  ELSE undefined
            IN <<[file EXCEPT !.patch = cut]>>
                 \o truncateLoop(Tail(sortedFiles), maxDiffSize, maxDiffSize)
       ELSE <<[file EXCEPT !.patch = undefined]>>
              \o truncateLoop(Tail(sortedFiles), maxDiffSize, currentSize)

bySizeDescending(a, b) == patchLength(b) - patchLength(a)

byFilename(a, b) == localeCompare(a.filename, b.filename)

\* variant: the result stays in the order of the allocation
truncatePatches_unsorted(files, maxDiffSize) ==
  LET sortedFiles == sort(files, bySizeDescending)
  IN truncateLoop(sortedFiles, maxDiffSize, 0)

truncatePatches(files, maxDiffSize) ==
  LET sortedFiles == sort(files, bySizeDescending)
      result == truncateLoop(sortedFiles, maxDiffSize, 0)
  IN sort(result, byFilename)

\* the FileChange made of a file of the listFiles answer
FileChange(file) ==
  [filename |-> file.filename, status |-> file.status,
   additions |-> file.additions, deletions |-> file.deletions,
   patch |-> file.patch]

\* filesData.filter(...).map(...)
keptFiles(filesData, excludePatterns) ==
  LET kept == SelectSeq(filesData,
                LAMBDA file : ~shouldExcludeFile(file.filename, excludePatterns))
  IN [i \in DOMAIN kept |-> FileChange(kept[i])]

\* files.reduce((sum, f) => sum + term(f), 0)
RECURSIVE sumOf(_)
sumOf(numbers) ==
  IF numbers = << >> THEN 0 ELSE Head(numbers) + sumOf(Tail(numbers))

reduceSum(files, term(_)) == sumOf([i \in DOMAIN files |-> term(files[i])])

additionsOf(f) == f.additions

deletionsOf(f) == f.deletions

\* variant: a diff of exactly the budget is reduced too
fetchPRDiff_atBudget(filesData, maxDiffSize, excludePatterns) ==
  LET mapped == keptFiles(filesData, excludePatterns)
      totalDiffSize == reduceSum(mapped, patchLength)
      files == IF totalDiffSize >= maxDiffSize
               THEN truncatePatches(mapped, maxDiffSize)
               ELSE mapped
  IN [files |-> files,
      totalAdditions |-> reduceSum(files, additionsOf),
      totalDeletions |-> reduceSum(files, deletionsOf)]

\* variant: the patterns are applied to the reduced list
fetchPRDiff_excludeLast(filesData, maxDiffSize, excludePatterns) ==
  LET mapped == keptFiles(filesData, << >>)
      totalDiffSize == reduceSum(mapped, patchLength)
      reduced == IF totalDiffSize > maxDiffSize
                 THEN truncatePatches(mapped, maxDiffSize)
                 ELSE mapped
      files == SelectSeq(reduced,
                 LAMBDA file : ~shouldExcludeFile(file.filename, excludePatterns))
  IN [files |-> files,
      totalAdditions |-> reduceSum(files, additionsOf),
      totalDeletions |-> reduceSum(files, deletionsOf)]

fetchPRDiff(filesData, maxDiffSize, excludePatterns) ==
  LET mapped == keptFiles(filesData, excludePatterns)
      totalDiffSize == reduceSum(mapped, patchLength)
      files == IF totalDiffSize > maxDiffSize
               THEN truncatePatches(mapped, maxDiffSize)
               ELSE mapped
  IN [files |-> files,
      totalAdditions |-> reduceSum(files, additionsOf),
      totalDeletions |-> reduceSum(files, deletionsOf)]

\* the answers of listFiles: the i-th name with its change counts and a patch
FileNames == << <<"a">>, <<"a", "b">>, <<"b">>, <<"c">>, <<"d">>, <<"e">> >>

Statuses == <<"added", "modified", "removed", "renamed", "copied", "modified">>

PatchText == <<"@", "+", "-">>

Patches == {undefined} \cup {<<SubSeq(PatchText, 1, k)>> : k \in 0..Len(PatchText)}

ApiFile(i, patch) ==
  [filename |-> FileNames[i], status |-> Statuses[i], additions |-> i,
   deletions |-> i - 1, sha |-> i, patch |-> patch]

ApiFiles == {ApiFile(i, patch) : i \in 1..MaxFiles, patch \in Patches}

\* lists of at most n files, no name twice, in any order
RECURSIVE Listings(_)
Listings(n) ==
  IF n = 0 THEN {<< >>}
  ELSE LET shorter == Listings(n - 1)
       IN shorter \cup
            {Append(x[1], x[2]) :
               x \in {y \in shorter \X ApiFiles :
                        \A j \in DOMAIN y[1] : y[1][j].filename # y[2].filename}}

Budgets == -1..MaxBudget

\* no pattern, a name, a name that may be absent and a name prefix
PatternLists == {<< >>, << <<"b">> >>, << <<"c">>, <<"a", "*">> >>}

NoDiff == [files |-> << >>, totalAdditions |-> 0, totalDeletions |-> 0]

\* ------------------------------------------------------------------------
\* Generator (gemini.ts)
\* ------------------------------------------------------------------------
maxRetries == 3

UpperCase ==
  <<"A", "B", "C", "D", "E", "F", "G", "H", "I", "J", "K", "L", "M", "N",
    "O", "P", "Q", "R", "S", "T", "U", "V", "W", "X", "Y", "Z">>

LowerCase ==
  <<"a", "b", "c", "d", "e", "f", "g", "h", "i", "j", "k", "l", "m", "n",
    "o", "p", "q", "r", "s", "t", "u", "v", "w", "x", "y", "z">>

\* s.toLowerCase()
toLowerCase(s) ==
  [i \in DOMAIN s |->
     IF \E k \in DOMAIN UpperCase : UpperCase[k] = s[i]
     THEN LowerCase[CHOOSE k \in DOMAIN UpperCase : UpperCase[k] = s[i]]
     ELSE s[i]]

SigRateLimit ==
  <<"r", "a", "t", "e", " ", "l", "i", "m", "i", "t">>

SigQuota ==
  <<"q", "u", "o", "t", "a">>

SigCode503 ==
  <<"5", "0", "3">>

SigServiceUnavailable ==
  <<"s", "e", "r", "v", "i", "c", "e", " ", "u", "n", "a", "v", "a", "i",
    "l", "a", "b", "l", "e">>

SigTimeout ==
  <<"t", "i", "m", "e", "o", "u", "t">>

SigTimedOut ==
  <<"t", "i", "m", "e", "d", " ", "o", "u", "t">>

SigCode500 ==
  <<"5", "0", "0">>

SigInternalServerError ==
  <<"i", "n", "t", "e", "r", "n", "a", "l", " ", "s", "e", "r", "v", "e",
    "r", " ", "e", "r", "r", "o", "r">>

\* variant: every error is worth another attempt
isRetryableError_always(errorMessage) == TRUE

\* variant: no error is worth another attempt
isRetryableError_never(errorMessage) == FALSE

isRetryableError(errorMessage) ==
  LET message == toLowerCase(errorMessage)
  IN IF includes(message, SigRateLimit) \/ includes(message, SigQuota) THEN TRUE
     ELSE IF includes(message, SigCode503)
               \/ includes(message, SigServiceUnavailable) THEN TRUE
     ELSE IF includes(message, SigTimeout) \/ includes(message, SigTimedOut) THEN TRUE
     ELSE IF includes(message, SigCode500)
               \/ includes(message, SigInternalServerError) THEN TRUE
     ELSE FALSE

\* 'No response received from Gemini API'
NoResponseMessage ==
  <<"N", "o", " ", "r", "e", "s", "p", "o", "n", "s", "e", " ", "r", "e",
    "c", "e", "i", "v", "e", "d", " ", "f", "r", "o", "m", " ", "G", "e",
    "m", "i", "n", "i", " ", "A", "P", "I">>

\* 'Empty response received from Gemini API'
EmptyResponseMessage ==
  <<"E", "m", "p", "t", "y", " ", "r", "e", "s", "p", "o", "n", "s", "e",
    " ", "r", "e", "c", "e", "i", "v", "e", "d", " ", "f", "r", "o", "m",
    " ", "G", "e", "m", "i", "n", "i", " ", "A", "P", "I">>

\* 'Failed to generate description after all retries'
AllRetriesMessage ==
  <<"F", "a", "i", "l", "e", "d", " ", "t", "o", " ", "g", "e", "n", "e",
    "r", "a", "t", "e", " ", "d", "e", "s", "c", "r", "i", "p", "t", "i",
    "o", "n", " ", "a", "f", "t", "e", "r", " ", "a", "l", "l", " ", "r",
    "e", "t", "r", "i", "e", "s">>

\* Math.pow(2, attempt) * 1000
backoffDelay(attempt) == (2 ^ attempt) * 1000

\* the error the try block of an attempt ends with, undefined when it returns:
\* outcome is what model.generateContent did
attemptError(outcome) ==
  IF outcome.kind = "throws" THEN <<outcome.payload>>
  ELSE IF outcome.kind = "noResponse" THEN <<NoResponseMessage>>
  ELSE IF outcome.payload = << >> \/ Len(trim(outcome.payload)) = 0
  THEN <<EmptyResponseMessage>>
  ELSE undefined

\* what model.generateContent does: it throws, it answers without a response,
\* or it answers with a text
ErrorMessages ==
  {<<"R", "a", "t", "e", " ", "L", "i", "m", "i", "t">>,
   <<"q", "u", "o", "t", "a">>,
   <<"5", "0", "3">>,
   <<"S", "e", "r", "v", "i", "c", "e", " ", "U", "n", "a", "v", "a", "i",
  "l", "a", "b", "l", "e">>,
   <<"t", "i", "m", "e", "o", "u", "t">>,
   <<"t", "i", "m", "e", "d", " ", "o", "u", "t">>,
   <<"5", "0", "0">>,
   <<"I", "n", "t", "e", "r", "n", "a", "l", " ", "S", "e", "r", "v", "e",
  "r", " ", "E", "r", "r", "o", "r">>,
   <<"4", "0", "0">>,
   <<"r", "a", "t", "e", "-", "l", "i", "m", "i", "t">>,
   <<"1", "5", "0", "0">>}

ResponseTexts == {<< >>, <<" ", "\n">>, <<"n">>, <<" ", "n", "\n">>}

Outcomes ==
  {[kind |-> "throws", payload |-> m] : m \in ErrorMessages}
    \cup {[kind |-> "noResponse", payload |-> << >>]}
    \cup {[kind |-> "text", payload |-> t] : t \in ResponseTexts}

\* ------------------------------------------------------------------------
\* Inputs of the action (index.ts) and the API key check (gemini.ts)
\* ------------------------------------------------------------------------
\* a number is <<n>>, or <<numerator, denominator>> when it has a fraction;
\* NaN is << >>
NaN == << >>

Digits == <<"0", "1", "2", "3", "4", "5", "6", "7", "8", "9">>

isDigit(c) == \E d \in DOMAIN Digits : Digits[d] = c

digitValue(c) == (CHOOSE d \in DOMAIN Digits : Digits[d] = c) - 1

\* the number of digits s starts with
RECURSIVE leadingDigits(_)
leadingDigits(s) ==
  IF s # << >> /\ isDigit(Head(s)) THEN 1 + leadingDigits(Tail(s)) ELSE 0

RECURSIVE decimalValue(_)
decimalValue(digits) ==
  IF digits = << >> THEN 0
  ELSE decimalValue(SubSeq(digits, 1, Len(digits) - 1)) * 10
         + digitValue(digits[Len(digits)])

\* parseInt(s, 10): white space, a sign, then the digits up to the first
\* other character
parseInt(s) ==
  LET t == trimStart(s)
      signed == t # << >> /\ Head(t) \in {"-", "+"}
      u == IF signed THEN Tail(t) ELSE t
      n == leadingDigits(u)
      value == decimalValue(SubSeq(u, 1, n))
  IN IF n = 0 THEN NaN
     ELSE IF signed /\ Head(t) = "-" THEN <<0 - value>> ELSE <<value>>

\* parseFloat(s) of a decimal without exponent, as numerator and denominator
parseFloat(s) ==
  LET t == trimStart(s)
      signed == t # << >> /\ Head(t) \in {"-", "+"}
      u == IF signed THEN Tail(t) ELSE t
      n == leadingDigits(u)
      rest == SubSeq(u, n + 1, Len(u))
      m == IF rest # << >> /\ Head(rest) = "." THEN leadingDigits(Tail(rest)) ELSE 0
      value == decimalValue(SubSeq(u, 1, n)) * (10 ^ m)
                 + decimalValue(SubSeq(rest, 2, m + 1))
  IN IF n = 0 /\ m = 0 THEN NaN
     ELSE IF signed /\ Head(t) = "-" THEN <<0 - value, 10 ^ m>>
     ELSE <<value, 10 ^ m>>

\* x < n and x > n of JavaScript: false when x is NaN
lessThan(x, n) == x # NaN /\ (IF Len(x) = 1 THEN x[1] < n ELSE x[1] < n * x[2])

greaterThan(x, n) == x # NaN /\ (IF Len(x) = 1 THEN x[1] > n ELSE x[1] > n * x[2])

\* core.getInput(name) || fallback
inputOr(raw, fallback) == IF trim(raw) = << >> THEN fallback ELSE trim(raw)

DefaultMaxTokens == <<"8", "1", "9", "2">>

DefaultTemperature == <<"0", ".", "7">>

DefaultMaxDiffSize == <<"5", "0", "0", "0", "0">>

DefaultModel == "gemini-3-flash"

NoError == ""

\* parseInputs: the inputs read, and the message of the error thrown, if any
parseInputs(raw) ==
  LET geminiApiKey == trim(raw.gemini_api_key)
      githubToken == trim(raw.github_token)
      updateMode == IF raw.update_mode = "" THEN "smart" ELSE raw.update_mode
      maxTokens == parseInt(inputOr(raw.max_tokens, DefaultMaxTokens))
      temperature == parseFloat(inputOr(raw.temperature, DefaultTemperature))
      maxDiffSize == parseInt(inputOr(raw.max_diff_size, DefaultMaxDiffSize))
      generationMarker == inputOr(raw.generation_marker, DEFAULT_MARKER)
      error ==
        IF geminiApiKey = << >>
        THEN "Input required and not supplied: gemini_api_key"
        ELSE IF githubToken = << >>
        THEN "Input required and not supplied: github_token"
        ELSE IF updateMode \notin {"empty", "append", "replace", "smart"}
        THEN "Invalid update_mode"
        ELSE IF lessThan(maxTokens, 1) \/ greaterThan(maxTokens, 32768)
        THEN "Invalid max_tokens"
        ELSE IF lessThan(temperature, 0) \/ greaterThan(temperature, 2)
        THEN "Invalid temperature"
        ELSE NoError
  IN [error |-> error,
      inputs |-> [geminiApiKey |-> geminiApiKey, githubToken |-> githubToken,
                  model |-> DefaultModel, updateMode |-> updateMode,
                  maxTokens |-> maxTokens, temperature |-> temperature,
                  maxDiffSize |-> maxDiffSize, excludePatterns |-> << >>,
                  generationMarker |-> generationMarker]]

\* variant: the length is taken of the trimmed key
validateApiKey_trimmed(apiKey) ==
  IF apiKey = << >> \/ Len(trim(apiKey)) = 0 THEN "Gemini API key is required"
  ELSE IF Len(trim(apiKey)) < 20
  THEN "Gemini API key appears to be invalid (too short)"
  ELSE NoError

\* validateApiKey: the message of the error thrown, if any
validateApiKey(apiKey) ==
  IF apiKey = << >> \/ Len(trim(apiKey)) = 0 THEN "Gemini API key is required"
  ELSE IF Len(apiKey) < 20 THEN "Gemini API key appears to be invalid (too short)"
  ELSE NoError

\* getPRContext: the current description, and the error thrown, if any
getPRContext(payload) ==
  [error |-> IF payload.pull_request THEN NoError
             ELSE "This action must be run on a pull_request or pull_request_target event",
   currentDescription |-> IF payload.body = undefined THEN << >> ELSE payload.body[1]]

NoOutputs == [description |-> undefined, generated |-> undefined, model_used |-> undefined]

\* variant: a skipped run reports that it generated
skipOutputs_generated(currentDescription, model) ==
  [description |-> <<currentDescription>>, generated |-> <<"true">>,
   model_used |-> <<model>>]

\* the outputs set when generation is skipped
skipOutputs(currentDescription, model) ==
  [description |-> <<currentDescription>>, generated |-> <<"false">>,
   model_used |-> <<model>>]

\* the outputs set at the end of a run that generated
successOutputs(finalDescription, model) ==
  [description |-> <<finalDescription>>, generated |-> <<"true">>,
   model_used |-> <<model>>]

\* fetchPRDiff with the maxDiffSize of the inputs: totalDiffSize > NaN is false
fetchPRDiffOfRun(files, budget, patterns) ==
  IF budget = NaN
  THEN LET mapped == keptFiles(files, patterns)
       IN [files |-> mapped,
           totalAdditions |-> reduceSum(mapped, additionsOf),
           totalDeletions |-> reduceSum(mapped, deletionsOf)]
  ELSE fetchPRDiff(files, budget[1], patterns)

\* the body of a PR after pulls.update settled
pullsUpdate(body, newDescription, ok) == IF ok THEN newDescription ELSE body

\* an API key of n characters
Key(n) == [i \in 1..n |-> "k"]

RawMaxTokens ==
  {<< >>, <<"0">>, <<"1">>, <<"3", "2", "7", "6", "8">>, <<"3", "2", "7", "6", "9">>, <<"a", "b", "c">>}

RawTemperatures ==
  {<< >>, <<"0">>, <<"2">>, <<"2", ".", "1">>, <<"-", "0", ".", "1">>, <<"a", "b", "c">>}

RawMaxDiffSizes ==
  {<< >>, <<"0">>, <<"-", "1">>, <<"2">>, <<"a", "b", "c">>}

RawUpdateModes == {"", "empty", "append", "replace", "Smart"}

RawApiKeys == {Key(20), << >>, <<" ">>, Key(19)}

\* a generation_marker that is not an HTML comment
BareMarker == <<"a", "i">>

RawMarkers == {<< >>, CustomMarker, BareMarker}

DefaultRaw ==
  [gemini_api_key |-> Key(20), github_token |-> <<"t">>, update_mode |-> "",
   max_tokens |-> << >>, temperature |-> << >>, max_diff_size |-> << >>,
   generation_marker |-> << >>]

\* the workflows: any update mode, and at most one other input set
RawInputs ==
  {[r EXCEPT !.update_mode = mode] :
     mode \in RawUpdateModes,
     r \in {DefaultRaw}
         \cup {[DefaultRaw EXCEPT !.max_tokens = v] : v \in RawMaxTokens}
         \cup {[DefaultRaw EXCEPT !.temperature = v] : v \in RawTemperatures}
         \cup {[DefaultRaw EXCEPT !.max_diff_size = v] : v \in RawMaxDiffSizes}
         \cup {[DefaultRaw EXCEPT !.gemini_api_key = v] : v \in RawApiKeys}
         \cup {[DefaultRaw EXCEPT !.generation_marker = v] : v \in RawMarkers}}

\* the event: no pull request, or one with no body, a blank body, a body of
\* user text, a body that is a generated block
Payloads ==
  {[pull_request |-> FALSE, body |-> undefined]}
    \cup {[pull_request |-> TRUE, body |-> b] :
            b \in {undefined, << <<"\n">> >>, << <<"u">> >>,
                   <<wrapWithMarkers(<<"o">>, DEFAULT_MARKER)>>}}

\* the answer of listFiles in a run: two files, five characters of patch
RunFiles == <<ApiFile(3, <<PatchText>>), ApiFile(1, <<SubSeq(PatchText, 1, 2)>>)>>

NoInputs == parseInputs(DefaultRaw).inputs

\* ------------------------------------------------------------------------
\* State
\* ------------------------------------------------------------------------
VARIABLES
  marker,       \* inputs.generationMarker
  description,  \* the PR description the functions are applied to
  existing,     \* the description the last applyUpdateMode was given
  generated,    \* the generatedContent / content argument of the last call
  updateMode,   \* the updateMode argument of the last call
  op,           \* the function called last
  applied,      \* number of applyUpdateMode calls made on the description
  parsed,       \* result of the last parseDescription
  hasGen,       \* result of the last hasGeneratedContent
  decision,     \* result of the last shouldGenerate
  wrapped       \* result of the last wrapWithMarkers

VARIABLES
  filesData,        \* the answer of pulls.listFiles
  maxDiffSize,      \* the maxDiffSize argument of fetchPRDiff
  excludePatterns,  \* the excludePatterns argument of fetchPRDiff
  prDiff            \* the PRDiff fetchPRDiff returned

VARIABLES
  attempt,    \* the loop variable of generateDescription
  genPc,      \* where generateDescription is: call, sleep, returned, thrown
  calls,      \* number of model.generateContent calls made
  sleeps,     \* the delays sleep was called with
  warnings,   \* the messages of the warnings issued, one per failed attempt
  lastError,  \* lastError of generateDescription
  genResult,  \* the text generateDescription returned
  genError    \* the message of the error generateDescription threw

VARIABLES
  rawInputs,         \* what core.getInput gives for each input of the workflow
  payload,           \* github.context.payload: the pull request and its body
  inputs,            \* the ActionInputs parseInputs returned
  runPc,             \* where run is: start, listFiles, listCommits,
                     \* generating, update, done
  log,               \* the steps run has taken, in order
  outputs,           \* the outputs set with core.setOutput
  failures,          \* the step and message of every core.setFailed call
  finalDescription   \* finalDescription of run

VARIABLES
  apiKey,  \* the apiKey argument of a call of validateApiKey
  thrown   \* the message of the error that call threw

VARIABLES
  original,  \* the description before the first run of a series of runs
  runs       \* the update mode and the generated text of each run, in order

codecVars == <<marker, description, existing, generated, updateMode, applied,
               parsed, hasGen, decision, wrapped>>

diffVars == <<filesData, maxDiffSize, excludePatterns, prDiff>>

genVars == <<attempt, genPc, calls, sleeps, warnings, lastError, genResult,
             genError>>

runVars == <<rawInputs, payload, inputs, runPc, log, outputs, failures,
             finalDescription>>

keyVars == <<apiKey, thrown>>

seriesVars == <<original, runs>>

vars == <<op, codecVars, diffVars, genVars, runVars, keyVars, seriesVars>>

\* the values of the variables of a part of the program that is not running
CodecIdle ==
  /\ marker = DEFAULT_MARKER
  /\ description = << >>
  /\ existing = << >>
  /\ generated = << >>
  /\ updateMode = "smart"
  /\ applied = 0
  /\ parsed = NoParse
  /\ hasGen = FALSE
  /\ decision = FALSE
  /\ wrapped = << >>

DiffIdle ==
  /\ filesData = << >>
  /\ maxDiffSize = 0
  /\ excludePatterns = << >>
  /\ prDiff = NoDiff

GenIdle ==
  /\ attempt = 0
  /\ genPc = "idle"
  /\ calls = 0
  /\ sleeps = << >>
  /\ warnings = << >>
  /\ lastError = undefined
  /\ genResult = undefined
  /\ genError = undefined

RunIdle ==
  /\ rawInputs = DefaultRaw
  /\ payload = [pull_request |-> FALSE, body |-> undefined]
  /\ inputs = NoInputs
  /\ runPc = "idle"
  /\ log = << >>
  /\ outputs = NoOutputs
  /\ failures = << >>
  /\ finalDescription = << >>

KeyIdle ==
  /\ apiKey = << >>
  /\ thrown = NoError

SeriesIdle ==
  /\ original = << >>
  /\ runs = << >>

\* ------------------------------------------------------------------------
\* The functions of description.ts, called on a description
\* ------------------------------------------------------------------------
Init ==
  /\ DiffIdle
  /\ GenIdle
  /\ RunIdle
  /\ KeyIdle
  /\ SeriesIdle
  /\ marker \in Markers
  /\ description \in Docs(marker)
  /\ existing = << >>
  /\ generated = << >>
  /\ updateMode = "smart"
  /\ op = "init"
  /\ applied = 0
  /\ parsed = NoParse
  /\ hasGen = FALSE
  /\ decision = FALSE
  /\ wrapped = << >>

HasGeneratedContent ==
  /\ op = "init"
  /\ hasGen' = hasGeneratedContent(description, marker)
  /\ op' = "hasGeneratedContent"
  /\ UNCHANGED <<marker, description, existing, generated, updateMode,
                 applied, parsed, decision, wrapped>>
  /\ UNCHANGED <<diffVars, genVars, runVars, keyVars, seriesVars>>

ParseDescription ==
  /\ op = "init"
  /\ parsed' = parseDescription(description, marker)
  /\ op' = "parseDescription"
  /\ UNCHANGED <<marker, description, existing, generated, updateMode,
                 applied, hasGen, decision, wrapped>>
  /\ UNCHANGED <<diffVars, genVars, runVars, keyVars, seriesVars>>

WrapWithMarkers ==
  /\ op = "init"
  /\ \E content \in Gens(marker) :
       /\ generated' = content
       /\ wrapped' = wrapWithMarkers(content, marker)
  /\ op' = "wrapWithMarkers"
  /\ UNCHANGED <<marker, description, existing, updateMode, applied,
                 parsed, hasGen, decision>>
  /\ UNCHANGED <<diffVars, genVars, runVars, keyVars, seriesVars>>

ShouldGenerate ==
  /\ op = "init"
  /\ \E mode \in UpdateMode :
       /\ updateMode' = mode
       /\ decision' = shouldGenerate(description, mode, marker)
  /\ op' = "shouldGenerate"
  /\ UNCHANGED <<marker, description, existing, generated, applied,
                 parsed, hasGen, wrapped>>
  /\ UNCHANGED <<diffVars, genVars, runVars, keyVars, seriesVars>>

\* applyUpdateMode on the description as it stands
ApplyUpdateMode ==
  /\ op = "init"
  /\ applied = 0
  /\ \E mode \in UpdateMode, content \in Gens(marker) :
       /\ generated' = content
       /\ updateMode' = mode
       /\ description' = applyUpdateMode(description, content, mode, marker)
  /\ existing' = description
  /\ applied' = 1
  /\ op' = "applyUpdateMode"
  /\ UNCHANGED <<marker, parsed, hasGen, decision, wrapped>>
  /\ UNCHANGED <<diffVars, genVars, runVars, keyVars, seriesVars>>

\* applyUpdateMode once more, on its own output, with the same arguments
ReapplyUpdateMode ==
  /\ op = "applyUpdateMode"
  /\ applied = 1
  /\ existing' = description
  /\ description' = applyUpdateMode(description, generated, updateMode, marker)
  /\ applied' = 2
  /\ op' = "applyUpdateMode"
  /\ UNCHANGED <<marker, generated, updateMode, parsed, hasGen, decision, wrapped>>
  /\ UNCHANGED <<diffVars, genVars, runVars, keyVars, seriesVars>>

Next ==
  \/ HasGeneratedContent
  \/ ParseDescription
  \/ WrapWithMarkers
  \/ ShouldGenerate
  \/ ApplyUpdateMode
  \/ ReapplyUpdateMode

Spec == Init /\ [][Next]_vars

\* ------------------------------------------------------------------------
\* fetchPRDiff, called on an answer of listFiles
\* ------------------------------------------------------------------------
InitDiff ==
  /\ op = "init"
  /\ CodecIdle
  /\ filesData \in Listings(MaxFiles)
  /\ maxDiffSize \in Budgets
  /\ excludePatterns \in PatternLists
  /\ prDiff = NoDiff
  /\ GenIdle
  /\ RunIdle
  /\ KeyIdle
  /\ SeriesIdle

FetchPRDiff ==
  /\ op = "init"
  /\ prDiff' = fetchPRDiff(filesData, maxDiffSize, excludePatterns)
  /\ op' = "fetchPRDiff"
  /\ UNCHANGED <<filesData, maxDiffSize, excludePatterns>>
  /\ UNCHANGED <<codecVars, genVars, runVars, keyVars, seriesVars>>

NextDiff == FetchPRDiff

SpecDiff == InitDiff /\ [][NextDiff]_vars

\* ------------------------------------------------------------------------
\* generateDescription, from its first attempt on
\* ------------------------------------------------------------------------
InitGen ==
  /\ op = "init"
  /\ CodecIdle
  /\ DiffIdle
  /\ attempt = 1
  /\ genPc = "call"
  /\ calls = 0
  /\ sleeps = << >>
  /\ warnings = << >>
  /\ lastError = undefined
  /\ genResult = undefined
  /\ genError = undefined
  /\ RunIdle
  /\ KeyIdle
  /\ SeriesIdle

\* one pass of the loop body: the model is called and answers, and the
\* function runs on to its return, its throw or its next await
GenerateContent ==
  /\ genPc = "call"
  /\ attempt <= maxRetries
  /\ calls' = calls + 1
  /\ \E outcome \in Outcomes :
       LET error == attemptError(outcome)
       IN IF error = undefined
          THEN /\ genResult' = <<trim(outcome.payload)>>
               /\ genPc' = "returned"
               /\ UNCHANGED <<attempt, sleeps, warnings, lastError, genError>>
          ELSE /\ lastError' = error
               /\ warnings' = Append(warnings, error[1])
               /\ IF isRetryableError(error[1])
                  THEN IF attempt < maxRetries
                       THEN /\ sleeps' = Append(sleeps, backoffDelay(attempt))
                            /\ genPc' = "sleep"
                            /\ UNCHANGED <<attempt, genError>>
                       ELSE \* attempt++ ends the loop: throw lastError || ...
                            /\ attempt' = attempt + 1
                            /\ genPc' = "thrown"
                            /\ genError' = error
                            /\ UNCHANGED sleeps
                  ELSE /\ genPc' = "thrown"
                       /\ genError' = error
                       /\ UNCHANGED <<attempt, sleeps>>
               /\ UNCHANGED genResult
  /\ UNCHANGED <<op, codecVars, diffVars, runVars, keyVars, seriesVars>>

\* the timer of sleep fires: attempt++ and the next pass of the loop
Wake ==
  /\ genPc = "sleep"
  /\ attempt' = attempt + 1
  /\ genPc' = IF attempt + 1 <= maxRetries THEN "call" ELSE "thrown"
  /\ genError' = IF attempt + 1 <= maxRetries THEN genError
                 ELSE IF lastError # undefined THEN lastError
                 ELSE <<AllRetriesMessage>>
  /\ UNCHANGED <<calls, sleeps, warnings, lastError, genResult>>
  /\ UNCHANGED <<op, codecVars, diffVars, runVars, keyVars, seriesVars>>

NextGen ==
  \/ GenerateContent
  \/ Wake

\* a pending model call settles and a pending timer fires
SpecGen == InitGen /\ [][NextGen]_vars /\ WF_vars(NextGen)

\* ------------------------------------------------------------------------
\* run, from the start of the action to its end
\* ------------------------------------------------------------------------
InitRun ==
  /\ op = "init"
  /\ rawInputs \in RawInputs
  /\ payload \in Payloads
  /\ description = getPRContext(payload).currentDescription
  /\ marker = DEFAULT_MARKER
  /\ existing = << >>
  /\ generated = << >>
  /\ updateMode = "smart"
  /\ applied = 0
  /\ parsed = NoParse
  /\ hasGen = FALSE
  /\ decision = FALSE
  /\ wrapped = << >>
  /\ DiffIdle
  /\ GenIdle
  /\ inputs = NoInputs
  /\ runPc = "start"
  /\ log = << >>
  /\ outputs = NoOutputs
  /\ failures = << >>
  /\ finalDescription = << >>
  /\ KeyIdle
  /\ SeriesIdle

\* variant: the catch block reports nothing
Failed_swallow(step, message) ==
  /\ failures' = failures
  /\ runPc' = "done"

\* the catch block of run, entered from the given step
Failed(step, message) ==
  /\ failures' = Append(failures, [step |-> step, message |-> message])
  /\ runPc' = "done"

\* run up to its first await: the inputs, the API key, the event, the
\* decision, and either the skip or the listFiles request
RunStart ==
  /\ runPc = "start"
  /\ LET p == parseInputs(rawInputs)
         keyError == validateApiKey(p.inputs.geminiApiKey)
         prContext == getPRContext(payload)
         generate == shouldGenerate(prContext.currentDescription,
                                    p.inputs.updateMode, p.inputs.generationMarker)
     IN IF p.error # NoError
        THEN /\ Failed("parseInputs", p.error)
             /\ log' = <<"parseInputs", "setFailed">>
             /\ UNCHANGED <<inputs, marker, updateMode, existing, decision, outputs>>
        ELSE
          /\ inputs' = p.inputs
          /\ marker' = p.inputs.generationMarker
          /\ updateMode' = p.inputs.updateMode
          /\ IF keyError # NoError
             THEN /\ Failed("validateApiKey", keyError)
                  /\ log' = <<"parseInputs", "validateApiKey", "setFailed">>
                  /\ UNCHANGED <<existing, decision, outputs>>
             ELSE IF prContext.error # NoError
             THEN /\ Failed("getPRContext", prContext.error)
                  /\ log' = <<"parseInputs", "validateApiKey", "validateModel",
                              "getPRContext", "setFailed">>
                  /\ UNCHANGED <<existing, decision, outputs>>
             ELSE
               /\ existing' = prContext.currentDescription
               /\ decision' = generate
               /\ IF ~generate
                  THEN /\ outputs' = skipOutputs(prContext.currentDescription,
                                                 p.inputs.model)
                       /\ log' = <<"parseInputs", "validateApiKey", "validateModel",
                                   "getPRContext", "shouldGenerate", "setOutput">>
                       /\ runPc' = "done"
                       /\ UNCHANGED failures
                  ELSE /\ log' = <<"parseInputs", "validateApiKey", "validateModel",
                                   "getPRContext", "shouldGenerate", "createOctokit",
                                   "listFiles">>
                       /\ runPc' = "listFiles"
                       /\ UNCHANGED <<outputs, failures>>
  /\ UNCHANGED <<rawInputs, payload, finalDescription>>
  /\ UNCHANGED <<op, description, generated, applied, parsed, hasGen, wrapped>>
  /\ UNCHANGED <<diffVars, genVars, keyVars, seriesVars>>

\* pulls.listFiles settles: fetchPRDiff filters and reduces the files and
\* asks for the commits, or run fails
ListFilesSettles ==
  /\ runPc = "listFiles"
  /\ \E ok \in BOOLEAN :
       IF ok
       THEN /\ filesData' = RunFiles
            /\ log' = Append(log, "listCommits")
            /\ runPc' = "listCommits"
            /\ UNCHANGED failures
       ELSE /\ Failed("fetchPRDiff", "listFiles failed")
            /\ log' = Append(log, "setFailed")
            /\ UNCHANGED filesData
  /\ UNCHANGED <<rawInputs, payload, inputs, outputs, finalDescription>>
  /\ UNCHANGED <<maxDiffSize, excludePatterns, prDiff>>
  /\ UNCHANGED <<op, codecVars, genVars, keyVars, seriesVars>>

\* pulls.listCommits settles: fetchPRDiff returns and generateDescription
\* makes its first attempt, or run fails
ListCommitsSettles ==
  /\ runPc = "listCommits"
  /\ \E ok \in BOOLEAN :
       IF ok
       THEN /\ prDiff' = fetchPRDiffOfRun(filesData, inputs.maxDiffSize,
                                          inputs.excludePatterns)
            /\ log' = Append(log, "generatePRDescription")
            /\ runPc' = "generating"
            /\ attempt' = 1
            /\ genPc' = "call"
            /\ UNCHANGED failures
       ELSE /\ Failed("fetchPRDiff", "listCommits failed")
            /\ log' = Append(log, "setFailed")
            /\ UNCHANGED <<prDiff, attempt, genPc>>
  /\ UNCHANGED <<rawInputs, payload, inputs, outputs, finalDescription>>
  /\ UNCHANGED <<filesData, maxDiffSize, excludePatterns>>
  /\ UNCHANGED <<calls, sleeps, warnings, lastError, genResult, genError>>
  /\ UNCHANGED <<op, codecVars, keyVars, seriesVars>>

\* generateDescription settles: the generated text is spliced into the
\* current description and the update is requested, or run fails
GenerationSettles ==
  /\ runPc = "generating"
  /\ genPc \in {"returned", "thrown"}
  /\ IF genPc = "returned"
     THEN /\ generated' = genResult[1]
          /\ finalDescription' =
               applyUpdateMode(existing, genResult[1], inputs.updateMode,
                               inputs.generationMarker)
          /\ log' = log \o <<"applyUpdateMode", "update">>
          /\ runPc' = "update"
          /\ UNCHANGED failures
     ELSE /\ Failed("generatePRDescription", genError[1])
          /\ log' = Append(log, "setFailed")
          /\ UNCHANGED <<generated, finalDescription>>
  /\ UNCHANGED <<rawInputs, payload, inputs, outputs>>
  /\ UNCHANGED <<op, marker, description, existing, updateMode, applied, parsed,
                 hasGen, decision, wrapped>>
  /\ UNCHANGED <<diffVars, genVars, keyVars, seriesVars>>

\* variant: a failed update is requested a second time
UpdateSettles_retry ==
  /\ runPc = "update"
  /\ \E ok \in BOOLEAN :
       /\ description' = pullsUpdate(description, finalDescription, ok)
       /\ IF ok
          THEN /\ outputs' = successOutputs(finalDescription, inputs.model)
               /\ log' = Append(log, "setOutput")
               /\ runPc' = "done"
               /\ UNCHANGED failures
          ELSE IF Len(SelectSeq(log, LAMBDA step : step = "update")) < 2
          THEN /\ log' = Append(log, "update")
               /\ UNCHANGED <<runPc, failures, outputs>>
          ELSE /\ Failed("updatePRDescription", "update failed")
               /\ log' = Append(log, "setFailed")
               /\ UNCHANGED outputs
  /\ UNCHANGED <<rawInputs, payload, inputs, finalDescription>>
  /\ UNCHANGED <<op, marker, existing, generated, updateMode, applied, parsed,
                 hasGen, decision, wrapped>>
  /\ UNCHANGED <<diffVars, genVars, keyVars, seriesVars>>

\* variant: the outputs are set when the update is requested
UpdateSettles_outputsFirst ==
  /\ runPc = "update"
  /\ \E ok \in BOOLEAN :
       /\ description' = pullsUpdate(description, finalDescription, ok)
       /\ outputs' = successOutputs(finalDescription, inputs.model)
       /\ IF ok
          THEN /\ log' = Append(log, "setOutput")
               /\ runPc' = "done"
               /\ UNCHANGED failures
          ELSE /\ Failed("updatePRDescription", "update failed")
               /\ log' = Append(log, "setFailed")
  /\ UNCHANGED <<rawInputs, payload, inputs, finalDescription>>
  /\ UNCHANGED <<op, marker, existing, generated, updateMode, applied, parsed,
                 hasGen, decision, wrapped>>
  /\ UNCHANGED <<diffVars, genVars, keyVars, seriesVars>>

\* pulls.update settles: the outputs are set, or run fails
UpdateSettles ==
  /\ runPc = "update"
  /\ \E ok \in BOOLEAN :
       /\ description' = pullsUpdate(description, finalDescription, ok)
       /\ IF ok
          THEN /\ outputs' = successOutputs(finalDescription, inputs.model)
               /\ log' = Append(log, "setOutput")
               /\ runPc' = "done"
               /\ UNCHANGED failures
          ELSE /\ Failed("updatePRDescription", "update failed")
               /\ log' = Append(log, "setFailed")
               /\ UNCHANGED outputs
  /\ UNCHANGED <<rawInputs, payload, inputs, finalDescription>>
  /\ UNCHANGED <<op, marker, existing, generated, updateMode, applied, parsed,
                 hasGen, decision, wrapped>>
  /\ UNCHANGED <<diffVars, genVars, keyVars, seriesVars>>

NextRun ==
  \/ RunStart
  \/ ListFilesSettles
  \/ ListCommitsSettles
  \/ GenerateContent
  \/ Wake
  \/ GenerationSettles
  \/ UpdateSettles

SpecRun == InitRun /\ [][NextRun]_vars

\* ------------------------------------------------------------------------
\* validateApiKey, called on a key as the tests call it, and called by run
\* ------------------------------------------------------------------------
\* keys of up to MaxKeyLength characters, with and without white space
\* around them, and keys of white space only
ApiKeys ==
  {lead \o Key(n) \o trail :
     lead \in {<< >>, <<" ">>}, trail \in {<< >>, <<"\t">>, <<" ", "\n">>},
     n \in 0..MaxKeyLength}
  \cup {[i \in 1..n |-> " "] : n \in 0..MaxKeyLength}

InitKey ==
  /\ op = "init"
  /\ CodecIdle
  /\ DiffIdle
  /\ GenIdle
  /\ RunIdle
  /\ apiKey \in ApiKeys
  /\ thrown = NoError
  /\ SeriesIdle

\* a run with the inputs at their defaults and any of the keys of the runs
InitRunOfKey ==
  /\ InitRun
  /\ [rawInputs EXCEPT !.gemini_api_key = DefaultRaw.gemini_api_key] = DefaultRaw

ValidateApiKey ==
  /\ op = "init"
  /\ runPc = "idle"
  /\ thrown' = validateApiKey(apiKey)
  /\ op' = "validateApiKey"
  /\ UNCHANGED apiKey
  /\ UNCHANGED <<codecVars, diffVars, genVars, runVars, seriesVars>>

NextKey ==
  \/ ValidateApiKey
  \/ NextRun

InitKeyOrRun == InitKey \/ InitRunOfKey

SpecKey == InitKeyOrRun /\ [][NextKey]_vars

\* ------------------------------------------------------------------------
\* Runs of the action on one pull request, one after the other
\* ------------------------------------------------------------------------
\* the markers of the runs: the default, a custom comment, a bare word
SeriesMarkers == {DEFAULT_MARKER, CustomMarker, BareMarker}

\* descriptions a first run may find: nothing, white space, user text with
\* and without white space around it, a stray marker, a marked block between
\* user texts
SeriesDocs(m) ==
  {<< >>, <<"\n">>, <<"u">>, <<" ", "u", "\n">>,
   getMarkers(m).start, <<"u">> \o getMarkers(m).end,
   <<"u", "\n">> \o wrapWithMarkers(<<"o">>, m) \o <<"\n", "v">>}

\* generated texts: words, with and without white space, and markers
SeriesGens(m) ==
  {<<"n">>, <<"\n", "m", " ">>, getMarkers(m).start, getMarkers(m).end}

InitSeries ==
  /\ op = "init"
  /\ marker \in SeriesMarkers
  /\ original \in SeriesDocs(marker)
  /\ description = original
  /\ runs = << >>
  /\ existing = << >>
  /\ generated = << >>
  /\ updateMode = "smart"
  /\ applied = 0
  /\ parsed = NoParse
  /\ hasGen = FALSE
  /\ decision = FALSE
  /\ wrapped = << >>
  /\ DiffIdle
  /\ GenIdle
  /\ RunIdle
  /\ KeyIdle

\* a run of the action that finds the description the last run wrote: it
\* skips, or generates a text, splices it in and writes the result
Run ==
  /\ Len(runs) < MaxRuns
  /\ \E mode \in UpdateMode, generatedContent \in SeriesGens(marker) :
       LET generate == shouldGenerate(description, mode, marker)
       IN /\ updateMode' = mode
          /\ decision' = generate
          /\ IF generate
             THEN /\ existing' = description
                  /\ generated' = generatedContent
                  /\ description' =
                       applyUpdateMode(description, generatedContent, mode, marker)
                  /\ runs' = Append(runs, [mode |-> mode,
                                          generated |-> generatedContent])
                  /\ applied' = applied + 1
             ELSE UNCHANGED <<existing, generated, description, runs, applied>>
  /\ op' = "run"
  /\ UNCHANGED <<marker, original, parsed, hasGen, wrapped>>
  /\ UNCHANGED <<diffVars, genVars, runVars, keyVars>>

NextSeries == Run

SpecSeries == InitSeries /\ [][NextSeries]_vars

\* ------------------------------------------------------------------------
\* Vocabulary of the properties
\* ------------------------------------------------------------------------
\* the 0-based positions at which t occurs in s
Occurrences(s, t) == {i \in 0..(Len(s) - Len(t)) : OccursAt(s, t, i)}

Min(S) == CHOOSE x \in S : \A y \in S : x <= y

Contains(s, t) == Occurrences(s, t) # {}

\* a occurs in s, and b occurs in s at or after the end of that a
InOrder(s, a, b) ==
  LET A == Occurrences(s, a)
      B == Occurrences(s, b)
  IN \E i \in A : \E j \in B : i + Len(a) <= j

Blank(s) == \A i \in 1..Len(s) : s[i] \in WhiteSpace

StartMarker == getMarkers(marker).start
EndMarker == getMarkers(marker).end

\* a base marker in the '<!-- ... -->' comment format
ValidMarker(m) ==
  /\ Len(m) >= 8
  /\ SubSeq(m, 1, 4) = <<"<", "!", "-", "-">>
  /\ SubSeq(m, Len(m) - 2, Len(m)) = CloseDelim
  /\ ~Blank(SubSeq(m, 5, Len(m) - 3))

\* start + "\n\n" + content + "\n\n" + end, written out
Block(content) == StartMarker \o BlankLine \o content \o BlankLine \o EndMarker

\* the first start marker of d comes before the first end marker of d
WellFormed(d) ==
  /\ Contains(d, StartMarker)
  /\ Contains(d, EndMarker)
  /\ Min(Occurrences(d, StartMarker)) < Min(Occurrences(d, EndMarker))

\* the text of d in front of its first start marker
TextBefore(d) == SubSeq(d, 1, Min(Occurrences(d, StartMarker)))

\* the text of d behind the end marker at position e
TextAfter(d, e) == SubSeq(d, e + Len(EndMarker) + 1, Len(d))

SmartApplied == op = "applyUpdateMode" /\ updateMode = "smart"

\* ------------------------------------------------------------------------
\* C1  smart mode never deletes user text
\* ------------------------------------------------------------------------
\* C1 as stated: after applyUpdateMode in smart mode, the text in front of
\* and behind a well-formed marked block of the existing description occurs
\* in the output in that order, and when the existing description has no
\* well-formed pair the whole existing description occurs in the output.
C1_Original ==
  SmartApplied =>
    IF WellFormed(existing)
    THEN InOrder(description,
                 trim(TextBefore(existing)),
                 trim(TextAfter(existing, Min(Occurrences(existing, EndMarker)))))
    ELSE Contains(description, existing)

\* C1 amended: the user text is kept up to its leading and trailing white
\* space. For every end marker behind the first start marker, the trimmed
\* text in front of that start and the trimmed text behind that end occur in
\* the output in that order; a description without any start-before-end
\* pair occurs in the output whole, trimmed.
C1_SmartKeepsUserText ==
  SmartApplied =>
    LET S == Occurrences(existing, StartMarker)
        E == Occurrences(existing, EndMarker)
    IN /\ Contains(description, trim(existing)) \/ WellFormed(existing)
       /\ S # {} =>
            LET before == trim(SubSeq(existing, 1, Min(S)))
            IN \A e \in E :
                 e > Min(S) =>
                   InOrder(description, before, trim(TextAfter(existing, e)))

\* user text on both sides of a well-formed block, stale text inside it
C1_Witness ==
  /\ SmartApplied
  /\ existing = <<"u">> \o StartMarker \o EndMarker \o <<"u">>
  /\ description = <<"u">> \o BlankLine \o Block(generated) \o BlankLine \o <<"u">>

\* ------------------------------------------------------------------------
\* C2  round trip of wrapWithMarkers and parseDescription
\* ------------------------------------------------------------------------
\* C2: for a content X that contains neither marker and a marker in the
\* comment format, parsing wrapWithMarkers(X) gives X trimmed as the
\* generated content and empty text in front of and behind the block.
C2_RoundTrip ==
  (/\ op = "wrapWithMarkers"
   /\ ValidMarker(marker)
   /\ ~Contains(generated, StartMarker)
   /\ ~Contains(generated, EndMarker)) =>
    LET p == parseDescription(wrapped, marker)
    IN /\ p.generatedContent = trim(generated)
       /\ p.beforeMarker = << >>
       /\ p.afterMarker = << >>

\* a content with white space on both sides has been wrapped
C2_Witness ==
  /\ op = "wrapWithMarkers"
  /\ generated = <<"\n", "n", " ">>
  /\ ValidMarker(marker)
  /\ parseDescription(wrapped, marker).generatedContent = <<"n">>

\* ------------------------------------------------------------------------
\* C3  smart mode applied twice
\* ------------------------------------------------------------------------
\* C3: after applyUpdateMode has been applied in smart mode to its own
\* output with the same generated text G, the generated content parsed out
\* of the second output is G, and the text in front of and behind the block
\* is that of the first output. Stated for the generated texts on which
\* "equals G" and "equals G trimmed" agree: trimmed and free of markers.
C3_SmartIdempotent ==
  (/\ SmartApplied
   /\ applied = 2
   /\ generated = trim(generated)
   /\ ~Contains(generated, StartMarker)
   /\ ~Contains(generated, EndMarker)) =>
    LET p1 == parseDescription(existing, marker)
        p2 == parseDescription(description, marker)
    IN /\ p2.generatedContent = generated
       /\ p2.beforeMarker = p1.beforeMarker
       /\ p2.afterMarker = p1.afterMarker

\* ------------------------------------------------------------------------
\* C4  degenerate fallback of parseDescription
\* ------------------------------------------------------------------------
\* C4: when the start marker is missing, the end marker is missing, or the
\* first end marker is at or before the first start marker, parseDescription
\* returns the document unmodified as beforeMarker with empty generated and
\* after regions; and any other result means a start marker with an end
\* marker behind it was found.
C4_DegenerateFallback ==
  op = "parseDescription" =>
    LET S == Occurrences(description, StartMarker)
        E == Occurrences(description, EndMarker)
        fallback == [beforeMarker     |-> description,
                     generatedContent |-> << >>,
                     afterMarker      |-> << >>]
    IN /\ (S = {} \/ E = {} \/ Min(E) <= Min(S)) => parsed = fallback
       /\ parsed # fallback => \E s \in S : \E e \in E : s < e

\* both markers present in the wrong order, white space around them kept
C4_Witness ==
  /\ op = "parseDescription"
  /\ applied = 0
  /\ description = <<"\n">> \o EndMarker \o StartMarker \o <<"\n">>
  /\ parsed.beforeMarker = description
  /\ parsed.generatedContent = << >>

\* ------------------------------------------------------------------------
\* C5  which end marker parseDescription uses
\* ------------------------------------------------------------------------
\* C5: whenever an end marker occurs behind the first start marker,
\* parseDescription splits the document at the first start marker and at
\* the first end marker behind it, even if another end marker comes earlier.
C5_FirstEndAfterStart ==
  op = "parseDescription" =>
    LET S == Occurrences(description, StartMarker)
        E == Occurrences(description, EndMarker)
    IN (S # {} /\ \E e \in E : e > Min(S)) =>
         LET s == Min(S)
             e == Min({x \in E : x > s})
         IN parsed =
              [beforeMarker     |-> trim(SubSeq(description, 1, s)),
               generatedContent |->
                 trim(SubSeq(description, s + Len(StartMarker) + 1, e)),
               afterMarker      |-> trim(TextAfter(description, e))]

C7_Original ==
  (/\ SmartApplied
   /\ ~\E s \in Occurrences(existing, StartMarker) :
         \E e \in Occurrences(existing, EndMarker) : s < e) =>
    description =
      IF trim(existing) # << >>
      THEN trim(existing) \o BlankLine \o Block(generated)
      ELSE Block(generated)

\* C7 amended: in smart mode, when the start marker or the end marker is
\* missing from the existing description, the output is the trimmed existing
\* description, a blank line and the block, or the block alone when the
\* trimmed existing description is empty; when both markers are there but
\* the first end marker is not behind the first start marker, the output is
\* the existing description untrimmed, a blank line and the block.
C7_SmartAppendsBlock ==
  SmartApplied =>
    LET S == Occurrences(existing, StartMarker)
        E == Occurrences(existing, EndMarker)
    IN /\ (S = {} \/ E = {}) =>
            description =
              IF Blank(existing) THEN Block(generated)
              ELSE trim(existing) \o BlankLine \o Block(generated)
       /\ (S # {} /\ E # {} /\ Min(E) <= Min(S)) =>
            description = existing \o BlankLine \o Block(generated)

\* a description with white space around a lone start marker
C7_Witness ==
  /\ SmartApplied
  /\ existing = <<"\n">> \o StartMarker \o <<"u", "\n">>
  /\ description = StartMarker \o <<"u">> \o BlankLine \o Block(generated)

\* ------------------------------------------------------------------------
\* C8  hasGeneratedContent
\* ------------------------------------------------------------------------
\* C8: hasGeneratedContent is true exactly when the start marker and the
\* end marker both occur in the document.
C8_HasGeneratedContent ==
  op = "hasGeneratedContent" =>
    (hasGen <=> (/\ \E i \in 0..Len(description) : OccursAt(description, StartMarker, i)
                 /\ \E j \in 0..Len(description) : OccursAt(description, EndMarker, j)))

\* a document with only the start marker was asked about
C8_Witness ==
  /\ op = "hasGeneratedContent"
  /\ description = StartMarker \o <<"\n", "u">>
  /\ ~hasGen

\* ------------------------------------------------------------------------
\* C9  shouldGenerate
\* ------------------------------------------------------------------------
\* C9: in mode empty the decision is to generate exactly when the
\* description consists of white space only (or is empty); in the modes
\* append, replace and smart the decision is always to generate.
C9_ShouldGenerateTable ==
  op = "shouldGenerate" =>
    (decision <=> (updateMode = "empty" => Blank(description)))

\* a description of white space only, asked about in mode empty
C9_Witness ==
  /\ op = "shouldGenerate"
  /\ updateMode = "empty"
  /\ description = <<"\n", "\n">>
  /\ decision

\* ------------------------------------------------------------------------
\* C10  replace and empty modes
\* ------------------------------------------------------------------------
\* C10: in the modes replace and empty the output of applyUpdateMode is
\* exactly the block of the generated text, whatever the existing
\* description is.
C10_ReplaceAndEmpty ==
  (op = "applyUpdateMode" /\ updateMode \in {"replace", "empty"}) =>
    description = Block(generated)

\* empty mode applied to a description that is not empty
C10_Witness ==
  /\ op = "applyUpdateMode"
  /\ updateMode = "empty"
  /\ existing = <<"u">> \o StartMarker
  /\ description = Block(generated)

\* ------------------------------------------------------------------------
\* C11  append mode
\* ------------------------------------------------------------------------
\* C11: in append mode the output is the trimmed existing description, a
\* blank line, "---", a blank line and the block of the generated text (so
\* the existing text, the separator and the generated text come in that
\* order); when the existing description is empty or white space only, the
\* output is the block alone, without a "---" in front of it.
C11_AppendMode ==
  (op = "applyUpdateMode" /\ updateMode = "append") =>
    IF Blank(existing)
    THEN /\ description = Block(generated)
         /\ ~Contains(description, Separator)
    ELSE /\ description =
              trim(existing) \o BlankLine \o <<"-", "-", "-">> \o BlankLine
                \o Block(generated)
         /\ InOrder(description, trim(existing), Separator)
         /\ InOrder(description, Separator, Block(generated))

\* append mode applied to a description of white space only, and to one with
\* text and white space around it
C11_Witness ==
  /\ op = "applyUpdateMode"
  /\ updateMode = "append"
  /\ applied = 1
  /\ \/ existing = <<"\n", "\n">> /\ description = Block(generated)
     \/ /\ existing = <<"\n", "u", "\n">>
        /\ generated = <<"n">>
        /\ description = <<"u">> \o BlankLine \o Separator \o BlankLine \o Block(<<"n">>)

\* ------------------------------------------------------------------------
\* Vocabulary of the diff reducer properties
\* ------------------------------------------------------------------------
\* the files of the listFiles answer that match no exclude pattern, as
\* FileChange records, in the order of the answer
NonExcluded ==
  LET kept == SelectSeq(filesData,
                LAMBDA f : ~shouldExcludeFile(f.filename, excludePatterns))
  IN [i \in DOMAIN kept |->
        [filename |-> kept[i].filename, status |-> kept[i].status,
         additions |-> kept[i].additions, deletions |-> kept[i].deletions,
         patch |-> kept[i].patch]]

\* the sum of the lengths of the patch texts of a list of files
TotalPatchLength(files) ==
  sumOf([i \in DOMAIN files |->
           IF files[i].patch = undefined THEN 0 ELSE Len(files[i].patch[1])])

FilenamesOf(files) == [i \in DOMAIN files |-> files[i].filename]

\* the names are in strictly ascending order
OrderedByFilename(files) ==
  \A i, j \in DOMAIN files :
    i < j => localeCompare(files[i].filename, files[j].filename) < 0

\* the patch ends with the truncation sentinel
Truncated(file) ==
  /\ file.patch # undefined
  /\ Len(file.patch[1]) > Len(Sentinel)
  /\ SubSeq(file.patch[1], Len(file.patch[1]) - Len(Sentinel) + 1,
            Len(file.patch[1])) = Sentinel

\* ------------------------------------------------------------------------
\* C12  budget of the diff reducer
\* ------------------------------------------------------------------------
\* C12: for every list of files and every positive budget, the lengths of
\* the patch texts of the files fetchPRDiff returns sum to at most
\* max_diff_size.
C12_Budget ==
  (op = "fetchPRDiff" /\ maxDiffSize > 0) =>
    TotalPatchLength(prDiff.files) <= maxDiffSize

\* ------------------------------------------------------------------------
\* C13  file set and metadata
\* ------------------------------------------------------------------------
\* C13: the files returned have exactly the names of the non-excluded files
\* of the input, each name once; filename, status, additions and deletions of
\* every file are those of the input, only the patch may differ; so the
\* totals are those of the non-excluded input.
C13_FileSetAndMetadata ==
  op = "fetchPRDiff" =>
    /\ Len(prDiff.files) = Len(NonExcluded)
    /\ \A i \in DOMAIN NonExcluded :
         /\ Cardinality({j \in DOMAIN prDiff.files :
                           prDiff.files[j].filename = NonExcluded[i].filename}) = 1
         /\ \E j \in DOMAIN prDiff.files :
              /\ prDiff.files[j].filename = NonExcluded[i].filename
              /\ prDiff.files[j].status = NonExcluded[i].status
              /\ prDiff.files[j].additions = NonExcluded[i].additions
              /\ prDiff.files[j].deletions = NonExcluded[i].deletions
    /\ prDiff.totalAdditions =
         sumOf([i \in DOMAIN NonExcluded |-> NonExcluded[i].additions])
    /\ prDiff.totalDeletions =
         sumOf([i \in DOMAIN NonExcluded |-> NonExcluded[i].deletions])

\* three files over the budget: one patch kept, one cut, one dropped
C13_Witness ==
  /\ op = "fetchPRDiff"
  /\ Len(prDiff.files) = 3
  /\ TotalPatchLength(NonExcluded) > maxDiffSize
  /\ \E i, j, k \in DOMAIN prDiff.files :
       /\ Truncated(prDiff.files[i])
       /\ prDiff.files[j].patch = undefined
       /\ \E n \in DOMAIN NonExcluded :
            /\ NonExcluded[n].filename = prDiff.files[j].filename
            /\ NonExcluded[n].patch # undefined
       /\ prDiff.files[k].patch # undefined
       /\ ~Truncated(prDiff.files[k])

\* ------------------------------------------------------------------------
\* C14  order of the files returned
\* ------------------------------------------------------------------------
\* C14 as stated: the files returned are in lexicographic order of their
\* names whatever the order of the input, and they are in the order of the
\* input.
C14_Original ==
  op = "fetchPRDiff" =>
    /\ OrderedByFilename(prDiff.files)
    /\ FilenamesOf(prDiff.files) = FilenamesOf(NonExcluded)

\* C14: when the patches of the non-excluded files are longer in total than
\* max_diff_size, the files returned are in lexicographic order of their
\* names whatever the order of the input; otherwise they are in the order of
\* the input.  So the order of the input is kept whenever the input is in
\* lexicographic order of its names.
C14_Ordering ==
  op = "fetchPRDiff" =>
    /\ IF TotalPatchLength(NonExcluded) > maxDiffSize
       THEN OrderedByFilename(prDiff.files)
       ELSE FilenamesOf(prDiff.files) = FilenamesOf(NonExcluded)
    /\ OrderedByFilename(NonExcluded) =>
         FilenamesOf(prDiff.files) = FilenamesOf(NonExcluded)

\* a reduced list whose input was not in the order of the names, the
\* smallest patch belonging to the last name
C14_Witness ==
  /\ op = "fetchPRDiff"
  /\ maxDiffSize > 0
  /\ TotalPatchLength(NonExcluded) > maxDiffSize
  /\ Len(NonExcluded) = 3
  /\ ~OrderedByFilename(NonExcluded)
  /\ OrderedByFilename(prDiff.files)
  /\ patchLength(prDiff.files[3]) < patchLength(prDiff.files[1])
  /\ FilenamesOf(prDiff.files) # FilenamesOf(NonExcluded)

\* ------------------------------------------------------------------------
\* C15  bypass
\* ------------------------------------------------------------------------
\* C15: whenever the patches of the non-excluded files are at most
\* max_diff_size long in total, the list returned is the list of the
\* non-excluded files unchanged: same order, same patches, no sentinel.
C15_Bypass ==
  (op = "fetchPRDiff" /\ TotalPatchLength(NonExcluded) <= maxDiffSize) =>
    /\ prDiff.files = NonExcluded
    /\ \A i \in DOMAIN prDiff.files : ~Truncated(prDiff.files[i])

\* a list of exactly the budget, not in the order of the names
C15_Witness ==
  /\ op = "fetchPRDiff"
  /\ maxDiffSize > 0
  /\ TotalPatchLength(NonExcluded) = maxDiffSize
  /\ Len(NonExcluded) >= 2
  /\ ~OrderedByFilename(NonExcluded)
  /\ prDiff.files = NonExcluded

\* ------------------------------------------------------------------------
\* Vocabulary of the generator properties
\* ------------------------------------------------------------------------
Signatures ==
  {SigRateLimit, SigQuota, SigCode503, SigServiceUnavailable, SigTimeout,
   SigTimedOut, SigCode500, SigInternalServerError}

\* the message, in lower case, holds one of the transient signatures
Transient(message) ==
  \E sig \in Signatures : Contains(toLowerCase(message), sig)

\* generateDescription has returned or thrown
GenDone == genPc \in {"returned", "thrown"}

\* ------------------------------------------------------------------------
\* C18  bounded retries of transient failures
\* ------------------------------------------------------------------------
\* the part of C18 that holds of every state
C18_EveryState ==
  /\ calls <= 3
  /\ Len(sleeps) <= 2
  \* a transient failure of attempt k < 3 is followed by a wait of
  \* 1000 * 2^k ms and then by attempt k + 1
  /\ \A k \in DOMAIN warnings :
       (k < 3 /\ Transient(warnings[k])) =>
         /\ Len(sleeps) >= k
         /\ sleeps[k] = 1000 * (2 ^ k)
         /\ \/ genPc = "sleep" /\ attempt = k /\ calls = k
            \/ genPc = "call" /\ attempt = k + 1 /\ calls = k
            \/ calls > k
  \* a success returns at once: the calls made are the failures and itself
  /\ genPc = "returned" =>
       /\ calls = Len(warnings) + 1
       /\ genResult # undefined
       /\ genError = undefined
  \* three transient failures in a row are fatal, the last wait left out
  /\ (Len(warnings) = 3 /\ \A k \in 1..3 : Transient(warnings[k])) =>
       /\ genPc = "thrown"
       /\ genError = <<warnings[3]>>
       /\ calls = 3
       /\ sleeps = <<2000, 4000>>

\* C18: generateDescription calls the model at most 3 times; a transient
\* failure of attempt k < 3 is followed by a wait that doubles (2000 ms,
\* 4000 ms) and another attempt; a success returns at once with no further
\* call; three transient failures in a row are thrown as a fatal error; and
\* the loop always ends.
C18_BoundedRetries == [](C18_EveryState) /\ <>(GenDone)

\* two transient failures, then a success on the third attempt
C18_Witness ==
  /\ genPc = "returned"
  /\ calls = 3
  /\ Len(warnings) = 2
  /\ Transient(warnings[1])
  /\ Transient(warnings[2])
  /\ sleeps = <<2000, 4000>>
  /\ genResult = << <<"n">> >>

\* ------------------------------------------------------------------------
\* C19  permanent failures
\* ------------------------------------------------------------------------
\* C19: a failure whose message holds none of the transient signatures is
\* thrown on the attempt it happens on, with no wait and no further call
\* behind it; a missing response and an empty or white-space-only text are
\* such failures, so no blank text is ever returned.
C19_PermanentFailures ==
  /\ \A k \in DOMAIN warnings :
       ~Transient(warnings[k]) =>
         /\ k = Len(warnings)
         /\ genPc = "thrown"
         /\ genError = <<warnings[k]>>
         /\ calls = k
         /\ Len(sleeps) = k - 1
  /\ ~Transient(NoResponseMessage)
  /\ ~Transient(EmptyResponseMessage)
  /\ genPc = "returned" => ~Blank(genResult[1])

\* an empty answer on the second attempt, after a transient failure
C19_Witness ==
  /\ genPc = "thrown"
  /\ Len(warnings) = 2
  /\ Transient(warnings[1])
  /\ warnings[2] = EmptyResponseMessage
  /\ genError = <<EmptyResponseMessage>>
  /\ calls = 2
  /\ sleeps = <<2000>>

\* ------------------------------------------------------------------------
\* Vocabulary of the properties of run
\* ------------------------------------------------------------------------
\* how often run has taken the step
Count(step) == Cardinality({i \in DOMAIN log : log[i] = step})

InLog(step) == Count(step) > 0

\* the position of the first time run took the step
Position(step) == Min({i \in DOMAIN log : log[i] = step})

\* the description the pull request had when the run began
CurrentDescription == IF payload.body = undefined THEN << >> ELSE payload.body[1]

\* run has neither asked GitHub for the diff, nor called the generator, nor
\* written the description
NothingFetchedGeneratedWritten ==
  /\ ~InLog("listFiles")
  /\ ~InLog("listCommits")
  /\ ~InLog("generatePRDescription")
  /\ ~InLog("update")
  /\ calls = 0
  /\ genPc = "idle"
  /\ description = CurrentDescription

\* ------------------------------------------------------------------------
\* C16  short circuit
\* ------------------------------------------------------------------------
\* C16: whenever shouldGenerate returns false, the run ends without failure,
\* without fetching the diff, calling the generator or writing the
\* description, and its outputs are the current description unmodified,
\* generated = 'false' and the model.
C16_ShortCircuit ==
  (InLog("shouldGenerate") /\ ~decision) =>
    /\ runPc = "done"
    /\ failures = << >>
    /\ ~InLog("setFailed")
    /\ NothingFetchedGeneratedWritten
    /\ outputs.description = <<CurrentDescription>>
    /\ outputs.generated = <<"false">>
    /\ outputs.model_used = <<inputs.model>>

\* mode empty on a pull request whose body is user text
C16_Witness ==
  /\ InLog("shouldGenerate")
  /\ ~decision
  /\ inputs.updateMode = "empty"
  /\ payload.body = << <<"u">> >>
  /\ outputs.description = << <<"u">> >>
  /\ runPc = "done"

\* ------------------------------------------------------------------------
\* C17  no partial write
\* ------------------------------------------------------------------------
\* C17: the update of the description is requested at most once, and only
\* after the event was read, the diff and the commits were fetched, the text
\* was generated and the final description was spliced, all without failure;
\* a failure of any step ends the run, with no update requested behind it,
\* and the description of the pull request is either the one the run found
\* or the whole final description.
C17_NoPartialWrite ==
  /\ Count("update") <= 1
  /\ InLog("update") =>
       /\ InLog("getPRContext") /\ InLog("listFiles") /\ InLog("listCommits")
       /\ InLog("generatePRDescription") /\ InLog("applyUpdateMode")
       /\ Position("getPRContext") < Position("listFiles")
       /\ Position("listFiles") < Position("listCommits")
       /\ Position("listCommits") < Position("generatePRDescription")
       /\ Position("generatePRDescription") < Position("applyUpdateMode")
       /\ Position("applyUpdateMode") < Position("update")
       /\ genPc = "returned"
       /\ finalDescription =
            applyUpdateMode(CurrentDescription, genResult[1], inputs.updateMode,
                            inputs.generationMarker)
       /\ \A i \in DOMAIN failures : failures[i].step = "updatePRDescription"
  /\ failures # << >> =>
       /\ runPc = "done"
       /\ Len(failures) = 1
       /\ log[Len(log)] = "setFailed"
       /\ description = CurrentDescription
       /\ Count("update") =
            IF failures[1].step = "updatePRDescription" THEN 1 ELSE 0
  /\ description \in {CurrentDescription, finalDescription}
  /\ description # CurrentDescription => log[Len(log)] = "setOutput"

\* the update failed: requested once, nothing written
C17_Witness ==
  /\ failures # << >>
  /\ failures[1].step = "updatePRDescription"
  /\ Count("update") = 1
  /\ finalDescription # CurrentDescription
  /\ description = CurrentDescription
  /\ runPc = "done"

\* ------------------------------------------------------------------------
\* C20  validation of the configuration
\* ------------------------------------------------------------------------
\* the number an input stands for, the default when the input is not set
NumberOf(raw, default) == parseInt(IF trim(raw) = << >> THEN default ELSE trim(raw))

\* update_mode is none of the four modes, max_tokens is outside 1..32768,
\* temperature is outside 0..2, or max_diff_size is not a positive integer
InvalidConfiguration ==
  \/ rawInputs.update_mode \notin {"", "empty", "append", "replace", "smart"}
  \/ LET n == NumberOf(rawInputs.max_tokens, DefaultMaxTokens)
     IN n = NaN \/ n[1] < 1 \/ n[1] > 32768
  \/ LET t == parseFloat(IF trim(rawInputs.temperature) = << >>
                         THEN DefaultTemperature ELSE trim(rawInputs.temperature))
     IN t = NaN \/ t[1] < 0 \/ t[1] > 2 * t[2]
  \/ LET n == NumberOf(rawInputs.max_diff_size, DefaultMaxDiffSize)
     IN n = NaN \/ n[1] <= 0

\* C20: a run whose configuration is invalid is ended by parseInputs with a
\* configuration error, before anything is fetched, generated or written.
C20_FailFast ==
  InvalidConfiguration =>
    /\ runPc \in {"start", "done"}
    /\ NothingFetchedGeneratedWritten
    /\ runPc = "done" =>
         /\ Len(failures) = 1
         /\ failures[1].step = "parseInputs"
         /\ outputs = NoOutputs

\* ------------------------------------------------------------------------
\* C21  the marker pair is unambiguous
\* ------------------------------------------------------------------------
\* a is the beginning of b
IsPrefix(a, b) == Len(a) <= Len(b) /\ SubSeq(b, 1, Len(a)) = a

\* a is the end of b
IsSuffix(a, b) == Len(a) <= Len(b) /\ SubSeq(b, Len(b) - Len(a) + 1, Len(b)) = a

\* parseInputs has returned the inputs
InputsAccepted ==
  /\ InLog("parseInputs")
  /\ \A i \in DOMAIN failures : failures[i].step # "parseInputs"

\* C21: for every generation_marker the action accepts, the end marker
\* derived from it differs from the start marker and neither marker is the
\* beginning or the end of the other; a generation_marker that is not in the
\* '<!-- ... -->' format is rejected, or replaced by one that is, and not used
\* to derive the pair.
C21_UnambiguousPair ==
  InputsAccepted =>
    LET m == getMarkers(inputs.generationMarker)
    IN /\ m.start # m.end
       /\ ~IsPrefix(m.start, m.end) /\ ~IsPrefix(m.end, m.start)
       /\ ~IsSuffix(m.start, m.end) /\ ~IsSuffix(m.end, m.start)
       /\ ValidMarker(inputs.generationMarker)

\* ------------------------------------------------------------------------
\* C22  derivation of the markers and format of the block
\* ------------------------------------------------------------------------
\* the length of the part of a marker in front of its closing "-->" and of
\* the white space before that
CoreLength(m) ==
  CHOOSE k \in 0..(Len(m) - 3) :
    /\ k = 0 \/ m[k] \notin WhiteSpace
    /\ \A j \in (k + 1)..(Len(m) - 3) : m[j] \in WhiteSpace

\* the marker with "-end" inserted in front of its closing "-->", the white
\* space before the "-->" counted as part of the closing
EndInserted(m) ==
  SubSeq(m, 1, CoreLength(m)) \o <<"-", "e", "n", "d">>
    \o SubSeq(m, CoreLength(m) + 1, Len(m))

\* '<!-- gemini-pr-description-end -->'
DefaultEndMarker ==
  <<"<", "!", "-", "-", " ", "g", "e", "m", "i", "n", "i", "-", "p", "r", "-",
    "d", "e", "s", "c", "r", "i", "p", "t", "i", "o", "n", "-", "e", "n", "d",
    " ", "-", "-", ">">>

\* C22 as stated: the start marker is the base marker, the end marker is the
\* base marker with "-end" inserted before its closing "-->", and the block
\* is start, a blank line, the content, a blank line, end.
C22_Original ==
  op = "wrapWithMarkers" =>
    /\ getMarkers(marker).start = marker
    /\ getMarkers(marker).end = EndInserted(marker)
    /\ wrapped = marker \o <<"\n", "\n">> \o generated \o <<"\n", "\n">>
                   \o EndInserted(marker)

\* C22: the start marker is the base marker; the end marker is the base
\* marker without its closing "-->" and the white space before it, followed
\* by "-end -->", which is the base marker with "-end" inserted before its
\* closing " -->" when exactly one space stands there (the default pair is
\* '<!-- gemini-pr-description -->' / '<!-- gemini-pr-description-end -->');
\* the block is start, a blank line, the content as it is, a blank line, end.
C22_MarkersAndBlock ==
  op = "wrapWithMarkers" =>
    LET m == getMarkers(marker)
        core == SubSeq(marker, 1, CoreLength(marker))
    IN /\ m.start = marker
       /\ m.end = core \o <<"-", "e", "n", "d", " ", "-", "-", ">">>
       /\ SubSeq(marker, CoreLength(marker) + 1, Len(marker)) = <<" ", "-", "-", ">">>
            => m.end = EndInserted(marker)
       /\ marker = DEFAULT_MARKER => m.end = DefaultEndMarker
       /\ wrapped = m.start \o <<"\n", "\n">> \o generated \o <<"\n", "\n">> \o m.end
       /\ SubSeq(wrapped, Len(marker) + 3, Len(marker) + 2 + Len(generated)) = generated

\* a text with white space around it, wrapped in the default pair
C22_Witness ==
  /\ op = "wrapWithMarkers"
  /\ marker = DEFAULT_MARKER
  /\ generated = <<"\n", "n", " ">>
  /\ wrapped = DEFAULT_MARKER \o <<"\n", "\n", "\n", "n", " ", "\n", "\n">>
                 \o DefaultEndMarker

\* ------------------------------------------------------------------------
\* C23  exclusion before reduction
\* ------------------------------------------------------------------------
\* a name matches a pattern that is a literal name, or a literal prefix
\* followed by one "*"
Matches(filename, pattern) ==
  IF pattern # << >> /\ pattern[Len(pattern)] = "*"
  THEN IsPrefix(SubSeq(pattern, 1, Len(pattern) - 1), filename)
  ELSE filename = pattern

MatchesAny(filename) ==
  \E i \in DOMAIN excludePatterns : Matches(filename, excludePatterns[i])

\* the files of the listing that match no pattern, in the order of the listing
Unmatched == SelectSeq(filesData, LAMBDA f : ~MatchesAny(f.filename))

\* C23: a file whose name matches any exclude pattern is absent from the
\* result, its patch is not counted in the total compared with
\* max_diff_size and its additions and deletions are not in the totals;
\* every file that matches no pattern is in the result.
C23_ExclusionFirst ==
  op = "fetchPRDiff" =>
    /\ \A j \in DOMAIN prDiff.files : ~MatchesAny(prDiff.files[j].filename)
    /\ \A i \in DOMAIN Unmatched :
         \E j \in DOMAIN prDiff.files :
           prDiff.files[j].filename = Unmatched[i].filename
    /\ Len(prDiff.files) = Len(Unmatched)
    /\ TotalPatchLength(Unmatched) <= maxDiffSize =>
         \A i \in DOMAIN Unmatched : prDiff.files[i].patch = Unmatched[i].patch
    /\ (maxDiffSize >= 0 /\ TotalPatchLength(Unmatched) > maxDiffSize) =>
         \E i \in DOMAIN Unmatched :
           \E j \in DOMAIN prDiff.files :
             /\ prDiff.files[j].filename = Unmatched[i].filename
             /\ prDiff.files[j].patch # Unmatched[i].patch
    /\ prDiff.totalAdditions =
         sumOf([i \in DOMAIN Unmatched |-> Unmatched[i].additions])
    /\ prDiff.totalDeletions =
         sumOf([i \in DOMAIN Unmatched |-> Unmatched[i].deletions])
    /\ prDiff = fetchPRDiff(Unmatched, maxDiffSize, << >>)

\* the listing is over the budget only because of an excluded file: the
\* files that remain come back with their patches whole
C23_Witness ==
  /\ op = "fetchPRDiff"
  /\ maxDiffSize > 0
  /\ TotalPatchLength(filesData) > maxDiffSize
  /\ TotalPatchLength(Unmatched) = maxDiffSize
  /\ Len(Unmatched) = 2
  /\ Len(filesData) = 3
  /\ \A j \in DOMAIN prDiff.files :
       /\ prDiff.files[j].patch = Unmatched[j].patch
       /\ prDiff.files[j].patch # undefined
  /\ prDiff.totalAdditions < sumOf([i \in DOMAIN filesData |-> filesData[i].additions])

\* ------------------------------------------------------------------------
\* C26  greedy fill
\* ------------------------------------------------------------------------
SizeOf(file) == IF file.patch = undefined THEN 0 ELSE Len(file.patch[1])

\* the files of the listing processed before its i-th file: the longer
\* patches, and the patches of the same length listed earlier
ProcessedBefore(files, i) ==
  {j \in DOMAIN files :
     \/ SizeOf(files[j]) > SizeOf(files[i])
     \/ SizeOf(files[j]) = SizeOf(files[i]) /\ j < i}

RECURSIVE SizeOfAll(_, _)
SizeOfAll(files, indices) ==
  IF indices = {} THEN 0
  ELSE LET j == CHOOSE k \in indices : TRUE
       IN SizeOf(files[j]) + SizeOfAll(files, indices \ {j})

\* the part of the budget used when the i-th file is reached
UsedBefore(files, i) ==
  IF maxDiffSize < 0 THEN 0
  ELSE LET before == SizeOfAll(files, ProcessedBefore(files, i))
       IN IF before < maxDiffSize THEN before ELSE maxDiffSize

\* the patch the greedy fill leaves the i-th file with
FilledPatch(files, i) ==
  LET used == UsedBefore(files, i)
  IN IF used + SizeOf(files[i]) <= maxDiffSize THEN files[i].patch
     ELSE IF used < maxDiffSize
     THEN <<SubSeq(files[i].patch[1], 1, maxDiffSize - used) \o Sentinel>>
     ELSE undefined

\* the file of the result with the name of a file of the listing
ResultFor(file) ==
  CHOOSE r \in {prDiff.files[j] : j \in DOMAIN prDiff.files} :
    r.filename = file.filename

\* C26: files are processed in descending patch length; a patch that fits
\* in the remaining budget is kept in full, otherwise, if budget remains, it
\* is cut to exactly the remaining budget and the sentinel is appended, and
\* once the budget is exhausted every further patch is dropped while the
\* file stays listed.  At most one file is truncated, and every patch of the
\* result is the original patch, a prefix of it plus the sentinel, or absent.
C26_GreedyFill ==
  (op = "fetchPRDiff" /\ TotalPatchLength(Unmatched) > maxDiffSize) =>
    /\ \A i \in DOMAIN Unmatched :
         /\ \E j \in DOMAIN prDiff.files :
              prDiff.files[j].filename = Unmatched[i].filename
         /\ ResultFor(Unmatched[i]).patch = FilledPatch(Unmatched, i)
         /\ LET before == Unmatched[i].patch
                after == ResultFor(Unmatched[i]).patch
            IN \/ after = before
               \/ after = undefined
               \/ /\ before # undefined
                  /\ \E k \in 1..Len(before[1]) :
                       after = <<SubSeq(before[1], 1, k) \o Sentinel>>
    /\ Cardinality({i \in DOMAIN Unmatched :
                      /\ ResultFor(Unmatched[i]).patch # undefined
                      /\ ResultFor(Unmatched[i]).patch # Unmatched[i].patch}) <= 1

\* patches of 3, 2 and 1 characters and a budget of 2: the longest is cut to
\* two characters and the sentinel, the other two are dropped, the three
\* names remain
C26_Witness ==
  /\ op = "fetchPRDiff"
  /\ maxDiffSize = 2
  /\ Len(Unmatched) = 3
  /\ {SizeOf(Unmatched[i]) : i \in DOMAIN Unmatched} = {1, 2, 3}
  /\ Len(prDiff.files) = 3
  /\ \A i \in DOMAIN Unmatched :
       ResultFor(Unmatched[i]).patch =
         IF SizeOf(Unmatched[i]) = 3
         THEN <<SubSeq(Unmatched[i].patch[1], 1, 2) \o Sentinel>>
         ELSE undefined

\* ------------------------------------------------------------------------
\* C27  largest patches first
\* ------------------------------------------------------------------------
\* the patch of the file did not come through whole
Sacrificed(file) == ResultFor(file).patch # file.patch

\* C27: for every listing over the budget, whenever the patch of a file is
\* truncated or dropped, the patch of every file with a strictly longer
\* patch is truncated or dropped too.
C27_LargestFirst ==
  (op = "fetchPRDiff" /\ maxDiffSize > 0
     /\ TotalPatchLength(Unmatched) > maxDiffSize) =>
    \A i, j \in DOMAIN Unmatched :
      (Sacrificed(Unmatched[i]) /\ SizeOf(Unmatched[j]) > SizeOf(Unmatched[i]))
        => Sacrificed(Unmatched[j])

\* ------------------------------------------------------------------------
\* C24  propagation of errors
\* ------------------------------------------------------------------------
\* the steps of a run that generates, in the order run takes them
StepsOfRun ==
  <<"parseInputs", "validateApiKey", "validateModel", "getPRContext",
    "shouldGenerate", "createOctokit", "listFiles", "listCommits",
    "generatePRDescription", "applyUpdateMode", "update", "setOutput">>

\* the steps taken when the given failure is raised
StepsUpTo(failure) ==
  SubSeq(StepsOfRun, 1,
         CASE failure.step = "parseInputs" -> 1
           [] failure.step = "validateApiKey" -> 2
           [] failure.step = "getPRContext" -> 4
           [] failure.step = "fetchPRDiff" ->
                IF failure.message = "listFiles failed" THEN 7 ELSE 8
           [] failure.step = "generatePRDescription" -> 9
           [] failure.step = "updatePRDescription" -> 11)

\* the error the step raised is the one reported
ReportedMessage(failure) ==
  CASE failure.step = "parseInputs" ->
         failure.message = parseInputs(rawInputs).error /\ failure.message # ""
    [] failure.step = "validateApiKey" ->
         failure.message \in {"Gemini API key is required",
                              "Gemini API key appears to be invalid (too short)"}
    [] failure.step = "getPRContext" ->
         /\ ~payload.pull_request
         /\ failure.message =
              "This action must be run on a pull_request or pull_request_target event"
    [] failure.step = "fetchPRDiff" ->
         failure.message \in {"listFiles failed", "listCommits failed"}
    [] failure.step = "generatePRDescription" ->
         /\ genPc = "thrown"
         /\ failure.message = genError[1]
         /\ Len(failure.message) > 0
    [] failure.step = "updatePRDescription" -> failure.message = "update failed"

\* C24: an error raised at any step of run (inputs, API key, missing pull
\* request, diff fetch, generation, update) ends the run at that step, no
\* later step is taken, and it is reported exactly once through setFailed
\* with its message; no error is swallowed.
C24_ErrorPropagation ==
  /\ Len(failures) <= 1
  /\ Count("setFailed") = Len(failures)
  /\ failures # << >> =>
       /\ runPc = "done"
       /\ log = Append(StepsUpTo(failures[1]), "setFailed")
       /\ ReportedMessage(failures[1])
       /\ outputs = NoOutputs
       /\ description = CurrentDescription
  /\ (runPc # "start" /\ parseInputs(rawInputs).error # NoError) =>
       (failures # << >> /\ failures[1].step = "parseInputs")
  /\ (runPc # "start" /\ parseInputs(rawInputs).error = NoError
        /\ validateApiKey(inputs.geminiApiKey) # NoError) =>
       (failures # << >> /\ failures[1].step = "validateApiKey")
  /\ (runPc # "start" /\ parseInputs(rawInputs).error = NoError
        /\ validateApiKey(inputs.geminiApiKey) = NoError
        /\ ~payload.pull_request) =>
       (failures # << >> /\ failures[1].step = "getPRContext")
  /\ (runPc = "done" /\ genPc = "thrown") =>
       (failures # << >> /\ failures[1].step = "generatePRDescription")
  /\ (runPc = "done" /\ failures = << >>) =>
       /\ log[Len(log)] = "setOutput"
       /\ \/ log = SubSeq(StepsOfRun, 1, 5) \o <<"setOutput">>
          \/ log = StepsOfRun /\ description = finalDescription

\* the generator gave up after its last attempt: the run ends there
C24_Witness ==
  /\ failures # << >>
  /\ failures[1].step = "generatePRDescription"
  /\ calls = maxRetries
  /\ log = SubSeq(StepsOfRun, 1, 9) \o <<"setFailed">>
  /\ runPc = "done"

\* ------------------------------------------------------------------------
\* C30  outputs of a run
\* ------------------------------------------------------------------------
\* the outputs of a run that skipped the generation
SkipReported ==
  /\ outputs.generated = <<"false">>
  /\ outputs.description = <<CurrentDescription>>

\* the outputs of a run that generated and updated
SuccessReported ==
  /\ outputs.generated = <<"true">>
  /\ outputs.description = <<finalDescription>>

FailureReported == InLog("setFailed")

\* C30: the outputs description = final description and generated = 'true'
\* are set only after the update of the pull request succeeded; a run that
\* ends in failure, a failed update included, sets no output and never
\* reports generated = 'true'; every run ends with exactly one of the skip
\* outputs, the success outputs and setFailed.
C30_Outputs ==
  /\ outputs.generated = <<"true">> =>
       /\ SuccessReported
       /\ log = StepsOfRun
       /\ description = finalDescription
       /\ failures = << >>
       /\ runPc = "done"
  /\ outputs.generated \in {undefined, <<"true">>, <<"false">>}
  /\ outputs # NoOutputs => (SkipReported \/ SuccessReported)
  /\ FailureReported =>
       /\ failures # << >>
       /\ outputs = NoOutputs
  /\ runPc # "done" => (outputs = NoOutputs /\ ~FailureReported)
  /\ runPc = "done" =>
       \/ SkipReported /\ ~decision /\ ~FailureReported
       \/ SuccessReported /\ decision /\ ~FailureReported
       \/ FailureReported /\ outputs = NoOutputs

\* a run in mode replace that replaced the text of the user
C30_Witness ==
  /\ runPc = "done"
  /\ inputs.updateMode = "replace"
  /\ outputs.generated = <<"true">>
  /\ outputs.description = <<finalDescription>>
  /\ description = finalDescription
  /\ CurrentDescription = <<"u">>
  /\ finalDescription # CurrentDescription

\* ------------------------------------------------------------------------
\* C25  validation of the API key
\* ------------------------------------------------------------------------
OnlyWhiteSpace(key) == \A i \in DOMAIN key : key[i] \in {" ", "\t", "\n"}

\* what the claim has validateApiKey do with a key
ExpectedKeyError(key) ==
  IF OnlyWhiteSpace(key) THEN "Gemini API key is required"
  ELSE IF Len(key) < 20 THEN "Gemini API key appears to be invalid (too short)"
  ELSE ""

NetworkSteps == {"listFiles", "listCommits", "generatePRDescription", "update"}

\* C25: validateApiKey throws 'Gemini API key is required' for every empty
\* or whitespace-only key, 'Gemini API key appears to be invalid (too
\* short)' for every other key shorter than 20 characters, and nothing for
\* a key of 20 or more characters that is not whitespace-only; run calls it
\* before it reads the pull request and before any network call.
C25_ApiKeyFirst ==
  /\ op = "validateApiKey" => thrown = ExpectedKeyError(apiKey)
  /\ (runPc \notin {"idle", "start"} /\ InLog("validateApiKey")) =>
       /\ Position("validateApiKey") = 2
       /\ \A i \in DOMAIN log :
            log[i] \in NetworkSteps \cup {"getPRContext"} => i > 2
       /\ IF ExpectedKeyError(inputs.geminiApiKey) # ""
          THEN /\ failures = <<[step |-> "validateApiKey",
                               message |-> ExpectedKeyError(inputs.geminiApiKey)]>>
               /\ log = <<"parseInputs", "validateApiKey", "setFailed">>
               /\ NothingFetchedGeneratedWritten
          ELSE \A i \in DOMAIN failures : failures[i].step # "validateApiKey"
  /\ (\E i \in DOMAIN log : log[i] \in NetworkSteps \cup {"getPRContext"}) =>
       /\ InLog("validateApiKey")
       /\ ExpectedKeyError(inputs.geminiApiKey) = ""

\* a run with a key of 19 characters ends at validateApiKey
C25_Witness ==
  /\ runPc = "done"
  /\ Len(inputs.geminiApiKey) = 19
  /\ payload.pull_request
  /\ failures # << >>
  /\ failures[1].step = "validateApiKey"
  /\ failures[1].message = "Gemini API key appears to be invalid (too short)"
  /\ ~InLog("getPRContext")

\* ------------------------------------------------------------------------
\* C28  the latest block is in the description
\* ------------------------------------------------------------------------
\* C28: after any sequence of generating runs, in any mix of update modes
\* and with any generated texts, the description the latest run wrote
\* contains the latest generated text wrapped in the markers as one
\* substring, so it has generated content.
C28_LatestBlockPresent ==
  runs # << >> =>
    /\ generated = runs[Len(runs)].generated
    /\ Contains(description, Block(runs[Len(runs)].generated))
    /\ Contains(description, StartMarker)
    /\ Contains(description, EndMarker)
    /\ hasGeneratedContent(description, marker)

\* an append run and then a smart run with another text, on user text
C28_Witness ==
  /\ Len(runs) = 2
  /\ original = <<" ", "u", "\n">>
  /\ runs[1] = [mode |-> "append", generated |-> <<"n">>]
  /\ runs[2] = [mode |-> "smart", generated |-> <<"\n", "m", " ">>]
  /\ Contains(description, Block(<<"\n", "m", " ">>))
  /\ ~Contains(description, Block(<<"n">>))

\* ------------------------------------------------------------------------
\* C29  smart runs do not accumulate blocks
\* ------------------------------------------------------------------------
MarkerFree(s) == ~Contains(s, StartMarker) /\ ~Contains(s, EndMarker)

\* every run so far was a smart run whose text has neither marker, and the
\* first of them found a description with neither marker
SmartSeries ==
  /\ runs # << >>
  /\ MarkerFree(original)
  /\ \A i \in DOMAIN runs :
       runs[i].mode = "smart" /\ MarkerFree(runs[i].generated)

\* C29: from a description U with neither marker, after n >= 1 smart runs
\* whose generated texts have neither marker, the description is trim(U),
\* a blank line and the latest text wrapped in the markers (the wrapped
\* text alone when trim(U) is empty): it has exactly one start marker and
\* exactly one end marker.
C29_NoAccumulation ==
  SmartSeries =>
    /\ description =
         IF trim(original) = << >> THEN Block(runs[Len(runs)].generated)
         ELSE trim(original) \o <<"\n", "\n">> \o Block(runs[Len(runs)].generated)
    /\ Cardinality(Occurrences(description, StartMarker)) = 1
    /\ Cardinality(Occurrences(description, EndMarker)) = 1

====
